---- MODULE Spec2Model ----
(***************************************************************************)
(* Rules engine of the dungeon-crawler card game: GameState, Deck, Card,   *)
(* GameService and the App handlers that drive them.                       *)
(***************************************************************************)
EXTENDS Integers, Sequences, FiniteSets, TLC

VARIABLES
  deck, discard, floor, weapon, weaponDamage, weaponMaxNext, health,
  floorNumber, runsRemaining, floorFresh, healUsed, initialDeckOrder,
  firstFloorDealt,           \* the fields of GameState
  settings,                  \* GameService.settings
  stateHistory,              \* GameService.stateHistory
  pendingDeals,              \* App.handleRunAway calls suspended at their await
  result,                    \* what the last handler that changed anything returned
  log,                       \* Game States in which the not yet undone actions were taken
  saved,                     \* localStorage: whether setItem works, and the item under GAME_STATE
  started                    \* the Game State and settings right after the last initGame,
                             \* and whether the settings have stayed as they were since

stateVars == <<deck, discard, floor, weapon, weaponDamage, weaponMaxNext, health,
               floorNumber, runsRemaining, floorFresh, healUsed, initialDeckOrder,
               firstFloorDealt>>

vars == <<deck, discard, floor, weapon, weaponDamage, weaponMaxNext, health,
          floorNumber, runsRemaining, floorFresh, healUsed, initialDeckOrder,
          firstFloorDealt, settings, stateHistory, pendingDeals, result, log,
          saved, started>>

----------------------------------------------------------------------------
(* Bounds of the model *)

\* the game is played with the first NumGameCards cards of GameCardOrder
NumGameCards == 8
\* number of outcomes of the random source that shuffle() is run with
NumShuffles == 1
\* number of actions that may stand not undone (the depth of play explored)
MaxDepth == 3
\* the same for the specification of straight play
MaxPlayDepth == 5
\* the same for the specification of the undo history
MaxHistoryDepth == 12
\* the maxHealth typed into the settings dialog for a custom game
CustomHealth == 7
\* the same for the specification of a game played to its end
MaxEndDepth == 8
\* number of outcomes of the random source that the full deck is shuffled with
NumDeckShuffles == 7
\* number of run-away continuations that may be suspended at once
MaxPending == 1
\* number of presets of PresetOrder the player picks among
NumPresets == 1
\* number of actions that may stand not undone where the storage is followed
MaxStoreDepth == 3

----------------------------------------------------------------------------
(* Constants of the program *)

SUITS == <<"hearts", "diamonds", "clubs", "spades">>
RANKS == <<"A", "2", "3", "4", "5", "6", "7", "8", "9", "10", "J", "Q", "K">>

SUIT_COLORS == [hearts |-> "red", diamonds |-> "red", clubs |-> "black", spades |-> "black"]

MAX_HISTORY == 10
FLOOR_SIZE == 4

\* the value JavaScript's Infinity is modelled by: above every card value
Infinity == 1000

DEFAULT_GAME_SETTINGS ==
  [maxHealth |-> 20, weaponDegradation |-> "strict", maxRuns |-> 1,
   healingMode |-> "once", includeDiamondRoyals |-> FALSE,
   includeHeartRoyals |-> FALSE, removeAceMonsters |-> FALSE]

DIFFICULTY_PRESETS ==
  [brutal |-> [maxHealth |-> 20, weaponDegradation |-> "strict", maxRuns |-> 1,
               healingMode |-> "once", includeDiamondRoyals |-> FALSE,
               includeHeartRoyals |-> FALSE, removeAceMonsters |-> FALSE],
   hard   |-> [maxHealth |-> 25, weaponDegradation |-> "strict", maxRuns |-> 2,
               healingMode |-> "once", includeDiamondRoyals |-> FALSE,
               includeHeartRoyals |-> FALSE, removeAceMonsters |-> FALSE],
   normal |-> [maxHealth |-> 25, weaponDegradation |-> "equal", maxRuns |-> 2,
               healingMode |-> "once", includeDiamondRoyals |-> FALSE,
               includeHeartRoyals |-> FALSE, removeAceMonsters |-> TRUE],
   easy   |-> [maxHealth |-> 30, weaponDegradation |-> "equal", maxRuns |-> 3,
               healingMode |-> "unlimited", includeDiamondRoyals |-> TRUE,
               includeHeartRoyals |-> FALSE, removeAceMonsters |-> TRUE],
   casual |-> [maxHealth |-> 35, weaponDegradation |-> "none", maxRuns |-> 999,
               healingMode |-> "unlimited", includeDiamondRoyals |-> TRUE,
               includeHeartRoyals |-> TRUE, removeAceMonsters |-> TRUE]]

PresetNames == DOMAIN DIFFICULTY_PRESETS

----------------------------------------------------------------------------
(* Card *)

\* Number(rank) for the ranks "2" .. "10"
NumberOfRank(rank) == CHOOSE n \in 2..10 : ToString(n) = rank

IndexIn(seq, x) == CHOOSE i \in 1..Len(seq) : seq[i] = x

calculateValue(rank) ==
  IF rank \in {"J", "Q", "K"}
    THEN (IF rank = "J" THEN 11 ELSE IF rank = "Q" THEN 12 ELSE 13)
    ELSE IF rank = "A" THEN 14
    ELSE NumberOfRank(rank)

\* new Card(suit, rank). A card is held as its id, which names it in every copy
\* the program makes of it: here the position of (suit, rank) in the loops of
\* Deck.build, 1..52
Card(suit, rank) == 13 * (IndexIn(SUITS, suit) - 1) + IndexIn(RANKS, rank)

\* JavaScript's null in a card position
Null == 0

CardIds == 1..(Len(SUITS) * Len(RANKS))

\* the fields of the card with id c
suitOf == [c \in CardIds |-> SUITS[((c - 1) \div 13) + 1]]
rankOf == [c \in CardIds |-> RANKS[((c - 1) % 13) + 1]]
colorOf == [c \in CardIds |-> SUIT_COLORS[suitOf[c]]]
valueOf == [c \in CardIds |-> calculateValue(rankOf[c])]

suit(card) == suitOf[card]
rank(card) == rankOf[card]
color(card) == colorOf[card]
value(card) == valueOf[card]

isMonster(card) == suit(card) = "clubs" \/ suit(card) = "spades"
isRoyal(card) == rank(card) \in {"J", "Q", "K"}
isAce(card) == rank(card) = "A"

----------------------------------------------------------------------------
(* Deck *)

\* a filter without the rule for the red aces
shouldIncludeCardRedAces(card, s) ==
  IF suit(card) = "diamonds" /\ isRoyal(card) /\ ~s.includeDiamondRoyals THEN FALSE
  ELSE IF suit(card) = "hearts" /\ isRoyal(card) /\ ~s.includeHeartRoyals THEN FALSE
  ELSE IF isMonster(card) /\ isAce(card) /\ s.removeAceMonsters THEN FALSE
  ELSE TRUE

\* a filter that never removes the ace monsters
shouldIncludeCardKeepAces(card, s) ==
  IF color(card) = "red" /\ isAce(card) THEN FALSE
  ELSE IF suit(card) = "diamonds" /\ isRoyal(card) /\ ~s.includeDiamondRoyals THEN FALSE
  ELSE IF suit(card) = "hearts" /\ isRoyal(card) /\ ~s.includeHeartRoyals THEN FALSE
  ELSE TRUE

shouldIncludeCard(card, s) ==
  IF color(card) = "red" /\ isAce(card) THEN FALSE
  ELSE IF suit(card) = "diamonds" /\ isRoyal(card) /\ ~s.includeDiamondRoyals THEN FALSE
  ELSE IF suit(card) = "hearts" /\ isRoyal(card) /\ ~s.includeHeartRoyals THEN FALSE
  ELSE IF isMonster(card) /\ isAce(card) /\ s.removeAceMonsters THEN FALSE
  ELSE TRUE

\* the 52 cards in the order the two loops of build create them
FullCatalog ==
  [i \in 1..52 |-> Card(SUITS[((i - 1) \div 13) + 1], RANKS[((i - 1) % 13) + 1])]

\* the cards the bounded game is played with, in order of preference
GameCardOrder ==
  << <<"diamonds", "2">>, <<"clubs", "5">>, <<"spades", "6">>, <<"hearts", "4">>,
     <<"diamonds", "3">>, <<"hearts", "3">>, <<"clubs", "6">>, <<"clubs", "A">>,
     <<"spades", "K">>, <<"hearts", "A">>, <<"diamonds", "J">>, <<"hearts", "Q">> >>

GameCardKeys ==
  {GameCardOrder[i] : i \in 1..(IF NumGameCards < Len(GameCardOrder)
                                  THEN NumGameCards ELSE Len(GameCardOrder))}

InGame(card) == <<suit(card), rank(card)>> \in GameCardKeys

GameCatalog == SelectSeq(FullCatalog, InGame)

\* Deck.build over a catalog
buildFrom(catalog, s) == SelectSeq(catalog, LAMBDA c : shouldIncludeCard(c, s))

build(s) == buildFrom(GameCatalog, s)

\* outcomes of the random source: RandomDraws[k + 1][i] is what
\* Math.floor(Math.random() * (i + 1)) gives under outcome k
RandomDraws == << <<0, 1, 1, 3, 0, 6, 4>>, <<0, 0, 2, 1, 3, 5, 2>> >>

\* Math.floor(Math.random() * (i + 1)) for the 0-based index i, under outcome k
\* of the random source
randomIndex(i, k) ==
  IF k + 1 <= Len(RandomDraws) /\ i <= Len(RandomDraws[k + 1])
    THEN RandomDraws[k + 1][i]
    ELSE (i * (k + 1)) % (i + 1)

Swap(cards, a, b) == [cards EXCEPT ![a] = cards[b], ![b] = cards[a]]

RECURSIVE shuffleFrom(_, _, _)
shuffleFrom(cards, i, k) ==
  IF i < 1 THEN cards
  ELSE shuffleFrom(Swap(cards, i + 1, randomIndex(i, k) + 1), i - 1, k)

\* Fisher-Yates, i from length - 1 down to 1
shuffle(cards, k) == shuffleFrom(cards, Len(cards) - 1, k)

Shuffles(cards) == {shuffle(cards, k) : k \in 0..(NumShuffles - 1)}

----------------------------------------------------------------------------
(* GameState *)

\* the GameState object as a record of its fields
State ==
  [deck |-> deck, discard |-> discard, floor |-> floor, weapon |-> weapon,
   weaponDamage |-> weaponDamage, weaponMaxNext |-> weaponMaxNext, health |-> health,
   floorNumber |-> floorNumber, runsRemaining |-> runsRemaining,
   floorFresh |-> floorFresh, healUsed |-> healUsed,
   initialDeckOrder |-> initialDeckOrder, firstFloorDealt |-> firstFloorDealt]

EmptyFloor == [i \in 1..FLOOR_SIZE |-> Null]

reset ==
  [deck |-> <<>>, discard |-> <<>>, floor |-> EmptyFloor, weapon |-> Null,
   weaponDamage |-> <<>>, weaponMaxNext |-> Infinity,
   health |-> DEFAULT_GAME_SETTINGS.maxHealth, floorNumber |-> 1,
   runsRemaining |-> DEFAULT_GAME_SETTINGS.maxRuns, floorFresh |-> TRUE,
   healUsed |-> FALSE, initialDeckOrder |-> <<>>, firstFloorDealt |-> FALSE]

floorCards(s) == SelectSeq(s.floor, LAMBDA c : c # Null)

floorCardCount(s) == Len(floorCards(s))

hasWon(s) == Len(s.deck) = 0 /\ floorCardCount(s) = 0

hasLost(s) == s.health <= 0

\* a canRun that does not look at floorFresh
canRunStale(s) == s.runsRemaining > 0 /\ floorCardCount(s) > 0

canRun(s) == s.runsRemaining > 0 /\ s.floorFresh /\ floorCardCount(s) > 0

\* a canHeal that forgets the heal already used on the floor
canHealAlways(s, st) == st.healingMode \in {"once", "unlimited"}

canHeal(s, st) == st.healingMode = "unlimited" \/ ~s.healUsed

\* floor.findIndex(c => c && c.id === card.id), 0-based, -1 when not found
getFloorSlotIndex(s, card) ==
  IF \E i \in 1..FLOOR_SIZE : s.floor[i] # Null /\ s.floor[i] = card
    THEN (CHOOSE i \in 1..FLOOR_SIZE :
            /\ s.floor[i] # Null /\ s.floor[i] = card
            /\ \A j \in 1..(i - 1) : ~(s.floor[j] # Null /\ s.floor[j] = card)) - 1
    ELSE -1

findCardById(s, card, from) ==
  IF from = "floor"
    THEN (IF getFloorSlotIndex(s, card) # -1 THEN card ELSE Null)
    ELSE IF from = "weapon" /\ s.weapon # Null /\ s.weapon = card THEN s.weapon
    ELSE Null

\* a removal that closes the gap: the cards to the right move one slot left
removeCardCompacting(s, card, from) ==
  IF from = "floor"
    THEN (IF getFloorSlotIndex(s, card) # -1
            THEN [s EXCEPT !.floor =
                    [i \in 1..FLOOR_SIZE |->
                       IF i < getFloorSlotIndex(s, card) + 1 THEN s.floor[i]
                       ELSE IF i < FLOOR_SIZE THEN s.floor[i + 1] ELSE Null]]
            ELSE s)
    ELSE IF from = "weapon" /\ s.weapon # Null /\ s.weapon = card
      THEN [s EXCEPT !.weapon = Null, !.weaponDamage = <<>>, !.weaponMaxNext = Infinity]
      ELSE s

removeCard(s, card, from) ==
  IF from = "floor"
    THEN (IF getFloorSlotIndex(s, card) # -1
            THEN [s EXCEPT !.floor[getFloorSlotIndex(s, card) + 1] = Null]
            ELSE s)
    ELSE IF from = "weapon" /\ s.weapon # Null /\ s.weapon = card
      THEN [s EXCEPT !.weapon = Null, !.weaponDamage = <<>>, !.weaponMaxNext = Infinity]
      ELSE s

createSnapshot(s) ==
  [deck |-> s.deck, discard |-> s.discard, floor |-> s.floor, weapon |-> s.weapon,
   weaponDamage |-> s.weaponDamage, weaponMaxNext |-> s.weaponMaxNext,
   health |-> s.health, floorNumber |-> s.floorNumber,
   runsRemaining |-> s.runsRemaining, floorFresh |-> s.floorFresh,
   healUsed |-> s.healUsed, firstFloorDealt |-> s.firstFloorDealt]

\* a restore that puts back the piles and leaves the counters and flags as they are
restorePilesOnly(s, snapshot) ==
  [s EXCEPT !.deck = snapshot.deck, !.discard = snapshot.discard,
            !.floor = snapshot.floor, !.weapon = snapshot.weapon,
            !.weaponDamage = snapshot.weaponDamage]

restoreFromSnapshot(s, snapshot) ==
  [s EXCEPT !.deck = snapshot.deck, !.discard = snapshot.discard,
            !.floor = snapshot.floor, !.weapon = snapshot.weapon,
            !.weaponDamage = snapshot.weaponDamage,
            !.weaponMaxNext = snapshot.weaponMaxNext, !.health = snapshot.health,
            !.floorNumber = snapshot.floorNumber,
            !.runsRemaining = snapshot.runsRemaining,
            !.floorFresh = snapshot.floorFresh, !.healUsed = snapshot.healUsed,
            !.firstFloorDealt = snapshot.firstFloorDealt]

----------------------------------------------------------------------------
(* GameService: the parts of the handlers that work on the GameState *)

Min(a, b) == IF a < b THEN a ELSE b
Max(a, b) == IF a > b THEN a ELSE b

DropFirst(seq, n) == SubSeq(seq, n + 1, Len(seq))

\* a push that never drops the oldest snapshot
saveWithoutEviction(history, s) == Append(history, createSnapshot(s))

\* stateHistory.push(snapshot), then shift() when longer than MAX_HISTORY
saveToHistory(history, s) ==
  IF Len(history) + 1 > MAX_HISTORY
    THEN Tail(Append(history, createSnapshot(s)))
    ELSE Append(history, createSnapshot(s))

\* checkGameEnd: the state it leaves and the value it returns
checkGameEnd(s) == IF hasLost(s) THEN [s EXCEPT !.health = 0] ELSE s

\* a check that looks for the win before the loss
endStateWinFirst(s) == IF hasWon(s) THEN "win" ELSE IF hasLost(s) THEN "lose" ELSE "none"

endStateOf(s) == IF hasLost(s) THEN "lose" ELSE IF hasWon(s) THEN "win" ELSE "none"

\* the loop of dealFirstFloor and of drawNewFloorAfterRun: slots 0.. are written
\* from the top of the deck while the deck has cards
dealFour(s) ==
  LET n == Min(FLOOR_SIZE, Len(s.deck))
  IN [s EXCEPT !.floor = [i \in 1..FLOOR_SIZE |-> IF i <= n THEN s.deck[i] ELSE s.floor[i]],
               !.deck = DropFirst(s.deck, n)]

dealFirstFloor(s) ==
  [dealFour(s) EXCEPT !.firstFloorDealt = TRUE, !.floorFresh = TRUE, !.healUsed = FALSE]

drawNewFloorAfterRun(s) == dealFour(s)

\* whether checkAndRefillFloor returns a refill (not null)
refillNeeded(s) == ~(floorCardCount(s) > 1 \/ Len(s.deck) = 0)

\* number of empty slots among the slots 1..i
emptyUpTo(s, i) == Cardinality({j \in 1..i : s.floor[j] = Null})

\* a refill that waits until the floor is empty
refillWhenEmpty(s) ==
  IF floorCardCount(s) > 0 \/ Len(s.deck) = 0 THEN s
  ELSE
    LET needed == Min(3, Len(s.deck))
    IN [s EXCEPT
          !.floor = [i \in 1..FLOOR_SIZE |-> IF i <= needed THEN s.deck[i] ELSE Null],
          !.deck = DropFirst(s.deck, needed),
          !.floorNumber = s.floorNumber + 1,
          !.floorFresh = TRUE,
          !.healUsed = FALSE]

checkAndRefillFloor(s) ==
  IF ~refillNeeded(s) THEN s
  ELSE
    LET needed == Min(3, Len(s.deck))
        drawn == Min(needed, emptyUpTo(s, FLOOR_SIZE))
    IN [s EXCEPT
          !.floor = [i \in 1..FLOOR_SIZE |->
                       IF s.floor[i] = Null /\ emptyUpTo(s, i) <= needed
                         THEN s.deck[emptyUpTo(s, i)]
                         ELSE s.floor[i]],
          !.deck = DropFirst(s.deck, drawn),
          !.floorNumber = s.floorNumber + 1,
          !.floorFresh = TRUE,
          !.healUsed = FALSE]

\* the result object of a handler with the fields the handlers return, the card
\* the handler was called with, and what App.checkGameEndAfterAction saw after
\* it: the end state and whether the floor was refilled
Result(op, card, success, healed, damage, slotIndex) ==
  [op |-> op, card |-> card, success |-> success, healed |-> healed,
   damage |-> damage, slotIndex |-> slotIndex, endState |-> "none", refilled |-> FALSE,
   message |-> <<>>]

\* a result with its message: the pieces of the template string, in order
Said(res, message) == [res EXCEPT !.message = message]

Declined(op, card) == Result(op, card, FALSE, 0, 0, -1)

\* Each handler gives [state, push, result]: the GameState it leaves (postAction's
\* checkGameEnd included), whether it called saveToHistory, and what it returns.
Outcome(s, push, res) == [state |-> s, push |-> push, result |-> res]

\* a heal that reports the full value of the heart
healAmountFull(s, card, st) == value(card)

healAmount(s, card, st) == Min(st.maxHealth, s.health + value(card)) - s.health

handleHeal(s, card, from, st) ==
  IF suit(card) # "hearts"
    THEN Outcome(s, FALSE, Said(Declined("heal", card), <<"Only hearts can heal.">>))
  ELSE
    LET s1 == removeCard(s, card, from)
        s2 == [s1 EXCEPT !.discard = Append(s1.discard, card), !.floorFresh = FALSE]
    IN IF ~canHeal(s2, st)
         THEN Outcome(checkGameEnd(s2), TRUE,
                      Said(Result("heal", card, TRUE, 0, 0, -1),
                           <<"Used ", rank(card),
                             " of hearts, but healing only works once per floor.">>))
         ELSE Outcome(checkGameEnd([s2 EXCEPT !.healUsed = TRUE,
                                              !.health = Min(st.maxHealth, s2.health + value(card))]),
                      TRUE,
                      Said(Result("heal", card, TRUE, healAmount(s2, card, st), 0, -1),
                           <<"Healed ", ToString(healAmount(s2, card, st)),
                             " health with ", rank(card), " of hearts.">>))

handleEquipWeapon(s, card, from) ==
  IF suit(card) # "diamonds"
    THEN Outcome(s, FALSE, Said(Declined("equip", card),
                                <<"Only diamonds can be equipped as weapons.">>))
  ELSE
    LET s1 == removeCard(s, card, from)
        s2 == IF s1.weapon # Null
                THEN [s1 EXCEPT !.discard = s1.discard \o <<s1.weapon>> \o s1.weaponDamage]
                ELSE s1
    IN Outcome(checkGameEnd([s2 EXCEPT !.weapon = card, !.weaponDamage = <<>>,
                                       !.weaponMaxNext = Infinity, !.floorFresh = FALSE]),
               TRUE, Said(Result("equip", card, TRUE, 0, 0, -1),
                          <<"Equipped weapon ", rank(card), " of diamonds (power ",
                            ToString(value(card)), ").">>))

\* a degradation check that under strict also declines a monster at the bound
fightBlockedAtBound(s, card, st) ==
  /\ st.weaponDegradation # "none"
  /\ IF st.weaponDegradation = "strict" THEN value(card) >= s.weaponMaxNext
                                          ELSE value(card) > s.weaponMaxNext

\* the degradation check that declines a fight
\* a degradation check that lets every monster through
fightNeverBlocked(s, card, st) == FALSE

fightBlocked(s, card, st) ==
  st.weaponDegradation # "none" /\ value(card) > s.weaponMaxNext

\* a degradation that applies the strict rule in every mode
degradeAlways(maxNext, monsterValue, st) == Min(maxNext, monsterValue - 1)

\* a degradation that applies the equal rule in every mode
degradeToValue(maxNext, monsterValue, st) == Min(maxNext, monsterValue)

degrade(maxNext, monsterValue, st) ==
  IF st.weaponDegradation = "strict" THEN Min(maxNext, monsterValue - 1)
  ELSE IF st.weaponDegradation = "equal" THEN Min(maxNext, monsterValue)
  ELSE maxNext

\* a fight in which the weapon absorbs nothing
fightDamageFull(s, card) == value(card)

fightDamage(s, card) == Max(0, value(card) - value(s.weapon))

\* the message of a fight declined by the degradation check; "<=" stands for
\* the less-or-equal sign of the source
fightBlockedMessage(s, st) ==
  <<"Weapon can only fight monsters ",
    IF st.weaponDegradation = "strict" THEN "<" ELSE "<=",
    " ",
    ToString(IF st.weaponDegradation = "strict" THEN Max(2, s.weaponMaxNext + 1)
                                                ELSE Max(2, s.weaponMaxNext)),
    " now.">>

handleFightMonster(s, card, from, st) ==
  IF s.weapon = Null
    THEN Outcome(s, FALSE, Said(Declined("fight", card),
                                <<"Equip a weapon (diamonds) before attacking monsters.">>))
  ELSE IF fightBlocked(s, card, st)
    THEN Outcome(s, FALSE, Said(Declined("fight", card), fightBlockedMessage(s, st)))
  ELSE
    LET slotIndex == getFloorSlotIndex(s, card)
        s1 == removeCard(s, card, from)
        damage == fightDamage(s1, card)
    IN Outcome(checkGameEnd([s1 EXCEPT !.health = s1.health - damage,
                                       !.weaponDamage = Append(s1.weaponDamage, card),
                                       !.weaponMaxNext = degrade(s1.weaponMaxNext, value(card), st),
                                       !.floorFresh = FALSE]),
               TRUE, Said(Result("fight", card, TRUE, 0, damage, slotIndex),
                          <<"Fought ", rank(card), " ", suit(card), " (power ",
                            ToString(value(card)), "). Took ", ToString(damage),
                            " damage.">>))

\* a tank in which the equipped weapon absorbs its value
tankDamageArmed(s, card) ==
  IF s.weapon # Null THEN Max(0, value(card) - value(s.weapon)) ELSE value(card)

\* const damage = card.value
tankDamage(s, card) == value(card)

\* a tank that lays the monster under the discard pile
handleTakeDamageUnder(s, card, from) ==
  IF suit(card) = "hearts" \/ suit(card) = "diamonds"
    THEN Outcome(s, FALSE, Said(Declined("tank", card),
                                <<"Take damage only from monsters (clubs/spades).">>))
  ELSE
    LET damage == tankDamage(s, card)
        s1 == removeCard(s, card, from)
    IN Outcome(checkGameEnd([s1 EXCEPT !.health = s1.health - damage,
                                       !.discard = <<card>> \o s1.discard,
                                       !.floorFresh = FALSE]),
               TRUE, Said(Result("tank", card, TRUE, 0, damage, -1),
                          <<"Took ", ToString(damage), " damage from ", rank(card),
                            " of ", suit(card), ".">>))

handleTakeDamage(s, card, from) ==
  IF suit(card) = "hearts" \/ suit(card) = "diamonds"
    THEN Outcome(s, FALSE, Said(Declined("tank", card),
                                <<"Take damage only from monsters (clubs/spades).">>))
  ELSE
    LET damage == tankDamage(s, card)
        s1 == removeCard(s, card, from)
    IN Outcome(checkGameEnd([s1 EXCEPT !.health = s1.health - damage,
                                       !.discard = Append(s1.discard, card),
                                       !.floorFresh = FALSE]),
               TRUE, Said(Result("tank", card, TRUE, 0, damage, -1),
                          <<"Took ", ToString(damage), " damage from ", rank(card),
                            " of ", suit(card), ".">>))

\* a discard of the weapon that forgets its trophy pile
handleDiscardWeaponAlone(s) ==
  IF s.weapon = Null
    THEN Outcome(s, FALSE, Said(Declined("discardWeapon", Null), <<"No weapon to discard.">>))
  ELSE Outcome(checkGameEnd([s EXCEPT !.discard = Append(s.discard, s.weapon),
                                      !.weapon = Null, !.weaponDamage = <<>>,
                                      !.weaponMaxNext = Infinity, !.floorFresh = FALSE]),
               TRUE, Said(Result("discardWeapon", Null, TRUE, 0, 0, -1),
                          <<"Weapon discarded.">>))

\* a discard that saves to the history before it looks for the weapon
handleDiscardWeaponSaving(s) ==
  IF s.weapon = Null
    THEN Outcome(s, TRUE, Said(Declined("discardWeapon", Null), <<"No weapon to discard.">>))
  ELSE Outcome(checkGameEnd([s EXCEPT !.discard = s.discard \o <<s.weapon>> \o s.weaponDamage,
                                      !.weapon = Null, !.weaponDamage = <<>>,
                                      !.weaponMaxNext = Infinity, !.floorFresh = FALSE]),
               TRUE, Said(Result("discardWeapon", Null, TRUE, 0, 0, -1),
                          <<"Weapon discarded.">>))

\* a discard that leaves the bound of the discarded weapon in place
handleDiscardWeaponBound(s) ==
  IF s.weapon = Null
    THEN Outcome(s, FALSE, Said(Declined("discardWeapon", Null), <<"No weapon to discard.">>))
  ELSE Outcome(checkGameEnd([s EXCEPT !.discard = s.discard \o <<s.weapon>> \o s.weaponDamage,
                                      !.weapon = Null, !.weaponDamage = <<>>,
                                      !.floorFresh = FALSE]),
               TRUE, Said(Result("discardWeapon", Null, TRUE, 0, 0, -1),
                          <<"Weapon discarded.">>))

handleDiscardWeapon(s) ==
  IF s.weapon = Null
    THEN Outcome(s, FALSE, Said(Declined("discardWeapon", Null), <<"No weapon to discard.">>))
  ELSE Outcome(checkGameEnd([s EXCEPT !.discard = s.discard \o <<s.weapon>> \o s.weaponDamage,
                                      !.weapon = Null, !.weaponDamage = <<>>,
                                      !.weaponMaxNext = Infinity, !.floorFresh = FALSE]),
               TRUE, Said(Result("discardWeapon", Null, TRUE, 0, 0, -1),
                          <<"Weapon discarded.">>))

\* a run-away that puts the floor cards on top of the deck
handleRunAwayOnTop(s) ==
  IF ~canRun(s)
    THEN Outcome(s, FALSE, Said(Declined("runAway", Null), <<"Cannot run away now.">>))
  ELSE Outcome([s EXCEPT !.deck = floorCards(s) \o s.deck, !.floor = EmptyFloor,
                         !.runsRemaining = s.runsRemaining - 1, !.floorFresh = TRUE,
                         !.healUsed = FALSE, !.floorNumber = s.floorNumber + 1],
               TRUE, Said(Result("runAway", Null, TRUE, 0, 0, -1),
                          <<"You ran away. New dungeon floor drawn.">>))

handleRunAway(s) ==
  IF ~canRun(s)
    THEN Outcome(s, FALSE, Said(Declined("runAway", Null), <<"Cannot run away now.">>))
  ELSE Outcome([s EXCEPT !.deck = s.deck \o floorCards(s), !.floor = EmptyFloor,
                         !.runsRemaining = s.runsRemaining - 1, !.floorFresh = TRUE,
                         !.healUsed = FALSE, !.floorNumber = s.floorNumber + 1],
               TRUE, Said(Result("runAway", Null, TRUE, 0, 0, -1),
                          <<"You ran away. New dungeon floor drawn.">>))

----------------------------------------------------------------------------
(* App: the event handlers, each with everything it calls *)

\* the presets and settings the player picks among, and the drop targets
PresetOrder == <<"brutal", "casual", "normal", "hard", "easy">>

ClickedPresets ==
  {PresetOrder[i] : i \in 1..(IF NumPresets < Len(PresetOrder)
                                THEN NumPresets ELSE Len(PresetOrder))} \cup {"nightmare"}

\* the settings the dialog is confirmed with: the fields of readSettingsFromUI
SettingsChoices ==
  {[DIFFICULTY_PRESETS.normal EXCEPT !.maxHealth = CustomHealth], DIFFICULTY_PRESETS.casual}

DropTargets == {"heal", "weapon", "weaponDamage", "discard", "health"}

\* the cards that are on screen to be dragged, each with the place it is dragged from
Draggable(s) ==
  {<<s.floor[i], "floor">> : i \in {j \in 1..FLOOR_SIZE : s.floor[j] # Null}}
    \cup (IF s.weapon # Null THEN {<<s.weapon, "weapon">>} ELSE {})

\* GameState.toJSON
toJSON(s) ==
  [s EXCEPT !.weaponMaxNext = IF s.weaponMaxNext = Infinity THEN Null ELSE s.weaponMaxNext]

\* GameState.fromJSON: every field of data is assigned over s
fromJSON(s, data) ==
  [f \in DOMAIN s |->
     IF f \in DOMAIN data
       THEN (IF f = "weaponMaxNext" /\ data[f] = Null THEN Infinity ELSE data[f])
       ELSE s[f]]

\* what JSON.stringify followed by JSON.parse makes of a weapon bound: a
\* number that is not finite comes back as null
jsonNumber(n) == IF n = Infinity THEN Null ELSE n

\* StorageService.saveGameState and the JSON.stringify of StorageService.set
saveGameState(s, st, history) ==
  [state |-> [toJSON(s) EXCEPT !.weaponMaxNext = jsonNumber(@)],
   gameSettings |-> st,
   stateHistory |->
     [i \in 1..Len(history) |->
        [history[i] EXCEPT !.weaponMaxNext =
           jsonNumber(IF history[i].weaponMaxNext = Infinity THEN Null
                      ELSE history[i].weaponMaxNext)]]]

\* a load that leaves the history as JSON.parse returned it
loadGameStateUnfixed(data) == data

\* StorageService.loadGameState of an entry that is there
loadGameState(data) ==
  [data EXCEPT !.stateHistory =
     [i \in 1..Len(data.stateHistory) |->
        [data.stateHistory[i] EXCEPT !.weaponMaxNext =
           IF data.stateHistory[i].weaponMaxNext = Null THEN Infinity
           ELSE data.stateHistory[i].weaponMaxNext]]]

\* GameService.loadState of an entry that is there: the state, settings and
\* history it leaves
loadState(s, st, data) ==
  LET loaded == loadGameState(data)
  IN [state |-> fromJSON(s, loaded.state),
      settings |-> [k \in DOMAIN st |->
                      IF k \in DOMAIN loaded.gameSettings THEN loaded.gameSettings[k]
                      ELSE st[k]],
      stateHistory |-> loaded.stateHistory]

\* StorageService.set: the item is replaced, or setItem throws and the
\* catch leaves the storage as it was
set(storage, val) ==
  IF storage.writable THEN [storage EXCEPT !.item = <<val>>] ELSE storage

\* the saveData that GameService.saveState has saveGameState write
saveData == saveGameState(State, settings, stateHistory)

Assign(s) ==
  /\ deck' = s.deck
  /\ discard' = s.discard
  /\ floor' = s.floor
  /\ weapon' = s.weapon
  /\ weaponDamage' = s.weaponDamage
  /\ weaponMaxNext' = s.weaponMaxNext
  /\ health' = s.health
  /\ floorNumber' = s.floorNumber
  /\ runsRemaining' = s.runsRemaining
  /\ floorFresh' = s.floorFresh
  /\ healUsed' = s.healUsed
  /\ initialDeckOrder' = s.initialDeckOrder
  /\ firstFloorDealt' = s.firstFloorDealt

\* App.checkGameEndAfterAction: the state it leaves
checkGameEndAfterAction(s) ==
  IF endStateOf(s) = "lose" THEN checkGameEnd(s) ELSE checkAndRefillFloor(s)

\* what the handler returned, with what checkGameEndAfterAction saw
Report(res, s) ==
  [res EXCEPT !.endState = endStateOf(s),
              !.refilled = endStateOf(s) # "lose" /\ refillNeeded(s)]

\* a switch that sends every card that is not a diamond to the fight
dropOutcomeUnrouted(s, card, from, target, st) ==
  IF target = "heal" THEN handleHeal(s, card, from, st)
  ELSE IF target \in {"weapon", "weaponDamage"}
    THEN (IF suit(card) = "diamonds" THEN handleEquipWeapon(s, card, from)
          ELSE handleFightMonster(s, card, from, st))
  ELSE IF target = "discard"
    THEN (IF from = "weapon" THEN handleDiscardWeapon(s)
          ELSE Outcome(s, FALSE, Declined("drop", card)))
  ELSE handleTakeDamage(s, card, from)

\* the switch of App.handleCardDrop
dropOutcome(s, card, from, target, st) ==
  IF target = "heal" THEN handleHeal(s, card, from, st)
  ELSE IF target \in {"weapon", "weaponDamage"}
    THEN (IF suit(card) = "diamonds" THEN handleEquipWeapon(s, card, from)
          ELSE IF suit(card) = "clubs" \/ suit(card) = "spades"
            THEN handleFightMonster(s, card, from, st)
          ELSE Outcome(s, FALSE, Said(Declined("drop", card),
                                      <<"Only weapons (diamonds) or monsters go here.">>)))
  ELSE IF target = "discard"
    THEN (IF from = "weapon" THEN handleDiscardWeapon(s)
          ELSE Outcome(s, FALSE,
                       Said(Declined("drop", card),
                            <<"You can only remove cards by equipping weapons, defeating monsters, or healing.">>)))
  ELSE handleTakeDamage(s, card, from)

\* a handler's outcome o becomes the new state: the snapshot of the state the
\* handler was called in is pushed when it called saveToHistory, and
\* checkGameEndAfterAction runs when after is TRUE
Resolve(o, after, cap) ==
  LET s == IF after THEN checkGameEndAfterAction(o.state) ELSE o.state
  IN /\ o.push => Len(log) < cap
     /\ Assign(s)
     /\ stateHistory' = IF o.push THEN saveToHistory(stateHistory, State) ELSE stateHistory
     /\ log' = IF o.push THEN Append(log, State) ELSE log
     /\ result' = IF ~o.push /\ s = State THEN result
                  ELSE IF after THEN Report(o.result, o.state) ELSE o.result
     /\ settings' = settings
     /\ saved' = IF o.push \/ s # State THEN set(saved, saveData') ELSE saved
     /\ started' = started

HandleCardDropUpTo(cap) ==
  \E d \in Draggable(State), target \in DropTargets :
    /\ findCardById(State, d[1], d[2]) # Null
    /\ Resolve(dropOutcome(State, d[1], d[2], target, settings), TRUE, cap)
    /\ UNCHANGED pendingDeals

HandleDiscardWeaponUpTo(cap) ==
  /\ Resolve(handleDiscardWeapon(State), TRUE, cap)
  /\ UNCHANGED pendingDeals

\* App.handleRunAway up to its await
HandleRunAwayUpTo(cap) ==
  LET o == handleRunAway(State)
  IN /\ o.push => pendingDeals < MaxPending
     /\ Resolve(o, FALSE, cap)
     /\ pendingDeals' = IF o.push THEN pendingDeals + 1 ELSE pendingDeals

\* App.handleRunAway from its await on
ResumeRunAway ==
  /\ pendingDeals > 0
  /\ pendingDeals' = pendingDeals - 1
  /\ Assign(drawNewFloorAfterRun(State))
  /\ result' = Result("drawNewFloorAfterRun", Null, TRUE, 0, 0, -1)
  /\ UNCHANGED <<settings, stateHistory, log, started>>
  /\ saved' = set(saved, saveData')

\* App.handleDeckClick: the state it leaves; nothing is dealt once the first
\* floor has been dealt
handleDeckClick(s) == IF s.firstFloorDealt THEN s ELSE dealFirstFloor(s)

HandleDeckClick ==
  /\ ~firstFloorDealt
  /\ Assign(dealFirstFloor(State))
  /\ result' = Result("dealFirstFloor", Null, TRUE, 0, 0, -1)
  /\ UNCHANGED <<settings, stateHistory, pendingDeals, log, started>>
  /\ saved' = set(saved, saveData')

\* GameService.undo: the state and history it leaves, and the value it returns
undo(s, history) ==
  IF Len(history) = 0
    THEN [state |-> s, history |-> history, success |-> FALSE]
    ELSE [state |-> restoreFromSnapshot(s, history[Len(history)]),
          history |-> SubSeq(history, 1, Len(history) - 1),
          success |-> TRUE]

\* App.handleUndo
HandleUndo ==
  LET u == undo(State, stateHistory)
  IN IF ~u.success
       THEN UNCHANGED vars
       ELSE /\ Assign(u.state)
            /\ stateHistory' = u.history
            /\ log' = SubSeq(log, 1, Len(log) - 1)
            /\ result' = Result("undo", Null, TRUE, 0, 0, -1)
            /\ UNCHANGED <<settings, pendingDeals, saved, started>>

\* GameService.initGame with the settings st, for one outcome of the shuffle
initGame(st, cards) ==
  [reset EXCEPT !.deck = cards, !.initialDeckOrder = cards,
                !.health = st.maxHealth, !.runsRemaining = st.maxRuns]

InitGame ==
  \E cards \in Shuffles(build(settings)) :
    /\ Assign(initGame(settings, cards))
    /\ stateHistory' = <<>>
    /\ log' = <<>>
    /\ result' = Result("initGame", Null, TRUE, 0, 0, -1)
    /\ UNCHANGED <<settings, pendingDeals>>
    /\ saved' = set(saved, saveData')
    /\ started' = [state |-> State', settings |-> settings', fixed |-> TRUE]

\* App.applySettings: the settings read from the dialog, then initGame
ApplySettings ==
  \E st \in SettingsChoices, k \in 0..(NumShuffles - 1) :
    /\ settings' = st
    /\ Assign(initGame(st, shuffle(build(st), k)))
    /\ stateHistory' = <<>>
    /\ log' = <<>>
    /\ result' = Result("initGame", Null, TRUE, 0, 0, -1)
    /\ UNCHANGED pendingDeals
    /\ saved' = set(saved, saveData')
    /\ started' = [state |-> State', settings |-> settings', fixed |-> TRUE]

applyDifficultyPreset(st, presetName) ==
  IF presetName \in PresetNames THEN DIFFICULTY_PRESETS[presetName] ELSE st

\* Object.entries(DIFFICULTY_PRESETS): the names in the order they are written
PresetEntries == <<"brutal", "hard", "normal", "easy", "casual">>

\* a lookup that tells the presets apart by their maxHealth alone
getModeByHealth(st) ==
  LET matches == {i \in 1..Len(PresetEntries) :
                    st.maxHealth = DIFFICULTY_PRESETS[PresetEntries[i]].maxHealth}
  IN IF matches = {} THEN "custom"
     ELSE PresetEntries[CHOOSE i \in matches : \A j \in matches : i <= j]

\* GameService.getCurrentDifficultyMode: the first preset, in the order of
\* DIFFICULTY_PRESETS, every entry of which the settings hold
getCurrentDifficultyMode(st) ==
  LET matches == {i \in 1..Len(PresetEntries) :
                    \A key \in DOMAIN DIFFICULTY_PRESETS[PresetEntries[i]] :
                      st[key] = DIFFICULTY_PRESETS[PresetEntries[i]][key]}
  IN IF matches = {} THEN "custom"
     ELSE PresetEntries[CHOOSE i \in matches : \A j \in matches : i <= j]

\* a click on a preset button of the settings dialog
ApplyDifficultyPreset ==
  \E presetName \in ClickedPresets :
    /\ settings' = applyDifficultyPreset(settings, presetName)
    /\ result' = IF applyDifficultyPreset(settings, presetName) = settings THEN result
                 ELSE Result("applyDifficultyPreset", Null, TRUE, 0, 0, -1)
    /\ started' = [started EXCEPT !.fixed = @ /\ settings' = settings]
    /\ UNCHANGED <<stateVars, stateHistory, pendingDeals, log, saved>>

restartGame(s, st, cards) ==
  [s EXCEPT !.deck = IF Len(s.initialDeckOrder) > 0 THEN s.initialDeckOrder ELSE cards,
            !.initialDeckOrder = IF Len(s.initialDeckOrder) > 0 THEN s.initialDeckOrder ELSE cards,
            !.discard = <<>>, !.floor = EmptyFloor, !.weapon = Null,
            !.weaponDamage = <<>>, !.weaponMaxNext = Infinity,
            !.health = st.maxHealth, !.floorNumber = 1,
            !.runsRemaining = st.maxRuns, !.floorFresh = TRUE, !.healUsed = FALSE,
            !.firstFloorDealt = FALSE]

RestartGame ==
  \E cards \in Shuffles(build(settings)) :
    /\ Assign(restartGame(State, settings, cards))
    /\ stateHistory' = <<>>
    /\ log' = <<>>
    /\ result' = Result("restartGame", Null, TRUE, 0, 0, -1)
    /\ UNCHANGED <<settings, pendingDeals, started>>
    /\ saved' = set(saved, saveData')

HandleCardDrop == HandleCardDropUpTo(MaxDepth)
HandleDiscardWeapon == HandleDiscardWeaponUpTo(MaxDepth)
HandleRunAway == HandleRunAwayUpTo(MaxDepth)

\* the state after the constructors and App.init with nothing saved: initGame
\* with the default settings. The browser's localStorage is empty, and setItem
\* works in it or throws (as it does when storage is disabled or full)
InitWith(writable) ==
  /\ settings = DEFAULT_GAME_SETTINGS
  /\ \E cards \in Shuffles(build(DEFAULT_GAME_SETTINGS)) :
       /\ deck = cards
       /\ initialDeckOrder = cards
  /\ discard = <<>>
  /\ floor = EmptyFloor
  /\ weapon = Null
  /\ weaponDamage = <<>>
  /\ weaponMaxNext = Infinity
  /\ health = DEFAULT_GAME_SETTINGS.maxHealth
  /\ floorNumber = 1
  /\ runsRemaining = DEFAULT_GAME_SETTINGS.maxRuns
  /\ floorFresh = TRUE
  /\ healUsed = FALSE
  /\ firstFloorDealt = FALSE
  /\ stateHistory = <<>>
  /\ pendingDeals = 0
  /\ result = Result("initGame", Null, TRUE, 0, 0, -1)
  /\ log = <<>>
  /\ saved = set([writable |-> writable, item |-> <<>>], saveData)
  /\ started = [state |-> State, settings |-> settings, fixed |-> TRUE]

\* the rules of the game do not read the storage: they are explored in a
\* browser whose setItem throws, where every saveState leaves the storage empty
Init == InitWith(FALSE)

Next ==
  \/ HandleDeckClick
  \/ HandleCardDrop
  \/ HandleDiscardWeapon
  \/ HandleRunAway
  \/ ResumeRunAway
  \/ HandleUndo
  \/ InitGame
  \/ ApplySettings
  \/ ApplyDifficultyPreset
  \/ RestartGame

Spec == Init /\ [][Next]_vars

\* straight play at greater depth: deals, drops, the discard button, undo and
\* the settings dialog
NextPlay ==
  \/ HandleDeckClick
  \/ HandleCardDropUpTo(MaxPlayDepth)
  \/ HandleDiscardWeaponUpTo(MaxPlayDepth)
  \/ HandleUndo
  \/ ApplySettings

SpecPlay == Init /\ [][NextPlay]_vars

\* the undo history at full length: run-aways and their deals, undo, and the
\* settings dialog
NextHistory ==
  \/ HandleDeckClick
  \/ HandleRunAwayUpTo(MaxHistoryDepth)
  \/ ResumeRunAway
  \/ HandleUndo
  \/ ApplySettings

SpecHistory == Init /\ [][NextHistory]_vars

\* the settings dialog confirmed with each choice of the three deck checkboxes
DeckSettings ==
  {[DEFAULT_GAME_SETTINGS EXCEPT !.includeDiamondRoyals = a,
                                 !.includeHeartRoyals = b,
                                 !.removeAceMonsters = c] : a, b, c \in BOOLEAN}

\* App.applySettings with the whole catalog of 52 cards
ApplySettingsFull ==
  \E st \in DeckSettings, k \in 0..(NumDeckShuffles - 1) :
    /\ settings' = st
    /\ Assign(initGame(st, shuffle(buildFrom(FullCatalog, st), k)))
    /\ stateHistory' = <<>>
    /\ log' = <<>>
    /\ result' = Result("initGame", Null, TRUE, 0, 0, -1)
    /\ UNCHANGED pendingDeals
    /\ saved' = set(saved, saveData')
    /\ started' = [state |-> State', settings |-> settings', fixed |-> TRUE]

\* the state after App.init, the game built from the whole catalog
InitFull ==
  /\ settings = DEFAULT_GAME_SETTINGS
  /\ \E k \in 0..(NumDeckShuffles - 1) :
       /\ deck = shuffle(buildFrom(FullCatalog, DEFAULT_GAME_SETTINGS), k)
       /\ initialDeckOrder = deck
  /\ discard = <<>>
  /\ floor = EmptyFloor
  /\ weapon = Null
  /\ weaponDamage = <<>>
  /\ weaponMaxNext = Infinity
  /\ health = DEFAULT_GAME_SETTINGS.maxHealth
  /\ floorNumber = 1
  /\ runsRemaining = DEFAULT_GAME_SETTINGS.maxRuns
  /\ floorFresh = TRUE
  /\ healUsed = FALSE
  /\ firstFloorDealt = FALSE
  /\ stateHistory = <<>>
  /\ pendingDeals = 0
  /\ result = Result("initGame", Null, TRUE, 0, 0, -1)
  /\ log = <<>>
  /\ saved = set([writable |-> FALSE, item |-> <<>>], saveData)
  /\ started = [state |-> State, settings |-> settings, fixed |-> TRUE]

\* the building of the deck: new games under each setting of the deck
\* checkboxes, and the first deal
NextDeck ==
  \/ ApplySettingsFull
  \/ HandleDeckClick

SpecDeck == InitFull /\ [][NextDeck]_vars

\* one game played to its end: the first deal and the drops
NextEnd ==
  \/ HandleDeckClick
  \/ HandleCardDropUpTo(MaxEndDepth)

SpecEnd == Init /\ [][NextEnd]_vars

\* the page is loaded again: a new GameService, then App.init restores the
\* saved game, or starts a new one when nothing is stored. A run-away suspended
\* at its await is gone with the old page
Reload ==
  IF saved.item = <<>>
    THEN \E cards \in Shuffles(build(DEFAULT_GAME_SETTINGS)) :
           /\ settings' = DEFAULT_GAME_SETTINGS
           /\ Assign(initGame(DEFAULT_GAME_SETTINGS, cards))
           /\ stateHistory' = <<>>
           /\ log' = <<>>
           /\ pendingDeals' = 0
           /\ result' = Result("initGame", Null, TRUE, 0, 0, -1)
           /\ saved' = set(saved, saveData')
           /\ started' = [state |-> State', settings |-> settings', fixed |-> TRUE]
    ELSE LET l == loadState(reset, DEFAULT_GAME_SETTINGS, saved.item[1])
         IN /\ Assign(checkGameEnd(l.state))
            /\ settings' = l.settings
            /\ stateHistory' = l.stateHistory
            /\ log' = [i \in 1..Len(l.stateHistory) |->
                         restoreFromSnapshot(l.state, l.stateHistory[i])]
            /\ pendingDeals' = 0
            /\ result' = Result("loadState", Null, TRUE, 0, 0, -1)
            /\ started' = [started EXCEPT !.fixed = @ /\ settings' = settings]
            /\ UNCHANGED saved

\* the same application in a browser whose localStorage works
InitStored == InitWith(TRUE)

\* play with the storage followed: deals, drops, the discard button, run-aways
\* and their deals, undo, restart, the settings dialog, and page reloads
NextStore ==
  \/ HandleDeckClick
  \/ HandleCardDropUpTo(MaxStoreDepth)
  \/ HandleDiscardWeaponUpTo(MaxStoreDepth)
  \/ HandleRunAwayUpTo(MaxStoreDepth)
  \/ ResumeRunAway
  \/ HandleUndo
  \/ RestartGame
  \/ ApplySettings
  \/ Reload

SpecStore == InitStored /\ [][NextStore]_vars

----------------------------------------------------------------------------
(* Properties *)

Last(seq) == seq[Len(seq)]

Range(seq) == {seq[i] : i \in 1..Len(seq)}

\* every card a Game State holds, pile after pile
CardsOf(s) ==
  s.deck \o s.discard \o floorCards(s) \o s.weaponDamage
    \o (IF s.weapon # Null THEN <<s.weapon>> ELSE <<>>)

\* C1: in every state the deck, the discard, the floor, the trophy pile and the
\* weapon together hold each card of the game's shuffled deck exactly once
CardConservation ==
  /\ Len(CardsOf(State)) = Len(initialDeckOrder)
  /\ Range(CardsOf(State)) = Range(initialDeckOrder)

\* the operations after which C2 bounds health
Resolved ==
  {"heal", "equip", "fight", "tank", "discardWeapon", "runAway",
   "undo", "restartGame", "initGame"}

\* C2: in every state left by a heal, equip, fight, tank, discardWeapon or
\* runAway with its win/loss check, by an undo, a restart or a new game, health
\* lies between 0 and the maxHealth of the settings in force
HealthRange ==
  (result.op \in Resolved /\ result.success) =>
    (0 <= health /\ health <= settings.maxHealth)

\* C3: an undo takes every field of the Game State back to what it was when
\* the last action that is not yet undone was taken, whatever refill or
\* run-away deal followed that action
UndoRestores ==
  [][result'.op = "undo" =>
       /\ Len(log) > 0
       /\ deck' = Last(log).deck
       /\ floor' = Last(log).floor
       /\ weapon' = Last(log).weapon
       /\ weaponDamage' = Last(log).weaponDamage
       /\ weaponMaxNext' = Last(log).weaponMaxNext
       /\ discard' = Last(log).discard
       /\ health' = Last(log).health
       /\ floorNumber' = Last(log).floorNumber
       /\ runsRemaining' = Last(log).runsRemaining
       /\ floorFresh' = Last(log).floorFresh
       /\ healUsed' = Last(log).healUsed
       /\ firstFloorDealt' = Last(log).firstFloorDealt]_vars

\* C3 witness: an undo has just taken back the third action on the first
\* floor, an action on a floor card after which the floor was refilled
UndoneAfterRefill ==
  /\ firstFloorDealt
  /\ result.op = "undo"
  /\ Len(log) = 2
  /\ floorNumber = 1
  /\ floorCardCount(State) = 2
  /\ Len(deck) > 0
  /\ weapon = Null
  /\ ~floorFresh

\* the fields of a snapshot are those of the Game State s
SameFields(snapshot, s) ==
  /\ snapshot.deck = s.deck
  /\ snapshot.discard = s.discard
  /\ snapshot.floor = s.floor
  /\ snapshot.weapon = s.weapon
  /\ snapshot.weaponDamage = s.weaponDamage
  /\ snapshot.weaponMaxNext = s.weaponMaxNext
  /\ snapshot.health = s.health
  /\ snapshot.floorNumber = s.floorNumber
  /\ snapshot.runsRemaining = s.runsRemaining
  /\ snapshot.floorFresh = s.floorFresh
  /\ snapshot.healUsed = s.healUsed
  /\ snapshot.firstFloorDealt = s.firstFloorDealt

\* in every state: the undo stack holds at most MAX_HISTORY snapshots, they are
\* the states of the latest actions not yet undone, oldest first, and on an
\* empty stack undo returns false and changes nothing
HistoryInv ==
  /\ Len(stateHistory) <= MAX_HISTORY
  /\ Len(stateHistory) <= Len(log)
  /\ \A i \in 0..(Len(stateHistory) - 1) :
       SameFields(stateHistory[Len(stateHistory) - i], log[Len(log) - i])
  /\ Len(stateHistory) = 0 =>
       undo(State, stateHistory) = [state |-> State, history |-> <<>>, success |-> FALSE]

\* in every step: an action adds one snapshot, up to MAX_HISTORY, and an undo
\* takes exactly one away
HistoryStep ==
  /\ Len(log') = Len(log) + 1 =>
       Len(stateHistory') = Min(Len(stateHistory) + 1, MAX_HISTORY)
  /\ result'.op = "undo" =>
       /\ Len(stateHistory) > 0
       /\ Len(stateHistory') = Len(stateHistory) - 1
       /\ SameFields(Last(stateHistory), State')

\* C4: the undo stack never holds more than MAX_HISTORY snapshots, a push onto a
\* full stack drops the oldest one, each undo rolls back the latest action not
\* yet undone, and on the empty stack undo returns false and changes nothing
HistoryBounded == []HistoryInv /\ [][HistoryStep]_vars

\* C4 witness: after more than MAX_HISTORY actions, undo has emptied the stack
\* while the oldest actions stand not undone
HistoryExhausted ==
  /\ result.op = "undo"
  /\ Len(stateHistory) = 0
  /\ Len(log) >= 1

\* C5: while one weapon stays equipped, weaponMaxNext never goes up under strict
\* and equal degradation and never changes under none, in any step other than
\* an equip, a discardWeapon, an undo, a new game or a restart
WeaponDegrades ==
  [][(weapon # Null
        /\ result'.op \notin {"equip", "discardWeapon", "undo", "initGame", "restartGame"}) =>
       /\ weapon' = weapon
       /\ IF settings.weaponDegradation = "none"
            THEN weaponMaxNext' = weaponMaxNext
            ELSE weaponMaxNext' <= weaponMaxNext]_vars

\* C5 witness: two fights in a row with one weapon under strict degradation
TwoFights ==
  /\ firstFloorDealt
  /\ result.op = "fight"
  /\ result.success
  /\ settings.weaponDegradation = "strict"
  /\ Len(weaponDamage) = 2
  /\ value(weaponDamage[2]) < value(weaponDamage[1])
  /\ weaponMaxNext = value(weaponDamage[2]) - 1

\* the monsters on the floor
FloorMonsters == {c \in Range(floorCards(State)) : isMonster(c)}

\* the bound on a monster's value as C6 states it
WithinBound(v, maxNext, st) ==
  IF st.weaponDegradation = "strict" THEN v < maxNext
  ELSE IF st.weaponDegradation = "equal" THEN v <= maxNext
  ELSE TRUE

\* C6: a fight succeeds exactly when a weapon is equipped and the monster's
\* value is within the bound of the degradation mode: below weaponMaxNext under
\* strict, at most weaponMaxNext under equal, any value under none
FightGuard ==
  \A card \in FloorMonsters :
    handleFightMonster(State, card, "floor", settings).result.success
      <=> (weapon # Null /\ WithinBound(value(card), weaponMaxNext, settings))

\* C6 as the code has it: a fight succeeds exactly when a weapon is equipped
\* and, under strict and under equal degradation alike, the monster's value is
\* at most weaponMaxNext; under none any value passes
FightGuardAtMost ==
  \A card \in FloorMonsters :
    handleFightMonster(State, card, "floor", settings).result.success
      <=> (/\ weapon # Null
           /\ (settings.weaponDegradation = "none" \/ value(card) <= weaponMaxNext))

\* C6 witness: under strict degradation a monster whose value equals
\* weaponMaxNext has just been fought with a weapon that had a trophy
FoughtAtTheBound ==
  /\ firstFloorDealt
  /\ result.op = "fight"
  /\ result.success
  /\ settings.weaponDegradation = "strict"
  /\ Len(weaponDamage) = 2
  /\ Last(log).weaponMaxNext = value(result.card)
  /\ weaponMaxNext = value(result.card) - 1

\* what a successful fight of card does, with health clamped at 0 or not
FightSettles(card, clamped) ==
  LET o == handleFightMonster(State, card, "floor", settings)
      damage == Max(0, value(card) - value(weapon))
      mode == settings.weaponDegradation
  IN o.result.success =>
       /\ o.result.damage = damage
       /\ o.state.health = IF clamped THEN Max(0, health - damage) ELSE health - damage
       /\ o.state.floor = [floor EXCEPT ![getFloorSlotIndex(State, card) + 1] = Null]
       /\ o.state.weaponDamage = Append(weaponDamage, card)
       /\ o.state.discard = discard
       /\ o.state.weapon = weapon
       /\ o.state.weaponMaxNext =
            (IF mode = "strict" THEN Min(weaponMaxNext, value(card) - 1)
             ELSE IF mode = "equal" THEN Min(weaponMaxNext, value(card))
             ELSE weaponMaxNext)
       /\ (/\ mode = "strict"
           /\ weapon = Card("diamonds", "2")
           /\ weaponMaxNext = Infinity
           /\ card = Card("clubs", "5")) =>
            /\ damage = 3
            /\ o.state.weaponMaxNext = 4
            /\ ~handleFightMonster(o.state, Card("spades", "6"), "floor", settings).result.success

\* C7: a successful fight returns damage max(0, monster - weapon), leaves
\* health at max(0, health - damage), moves the monster from its floor slot to
\* the end of weaponDamage and not to discard, and lowers weaponMaxNext as the
\* mode says; with the 2 of diamonds, the 5 of clubs costs 3, leaves
\* weaponMaxNext 4, and the 6 of spades is then declined
FightEffect == \A card \in FloorMonsters : FightSettles(card, TRUE)

\* C7 as stated: the same with health lowered by exactly the damage
FightEffectExact == \A card \in FloorMonsters : FightSettles(card, FALSE)

\* C7 witness: the 5 of clubs was fought with the 2 of diamonds under strict
\* degradation, and the 6 of spades lies on the floor and is declined
FoughtFiveOfClubs ==
  /\ firstFloorDealt
  /\ result.op = "fight"
  /\ result.success
  /\ result.card = Card("clubs", "5")
  /\ result.damage = 3
  /\ settings.weaponDegradation = "strict"
  /\ weapon = Card("diamonds", "2")
  /\ weaponDamage = <<Card("clubs", "5")>>
  /\ weaponMaxNext = 4
  /\ health = Last(log).health - 3
  /\ Card("spades", "6") \in FloorMonsters
  /\ ~handleFightMonster(State, Card("spades", "6"), "floor", settings).result.success

\* the hearts on the floor
FloorHearts == {c \in Range(floorCards(State)) : suit(c) = "hearts"}

\* C8: a heal of a heart always takes the card from its floor slot to the end
\* of discard; when healingMode is unlimited or healUsed is false, health
\* becomes min(maxHealth, health + value), healed is the increase and healUsed
\* becomes true; otherwise healed is 0 and health stays
HealEffect ==
  \A card \in FloorHearts :
    LET o == handleHeal(State, card, "floor", settings)
    IN /\ o.result.success
       /\ o.state.floor = [floor EXCEPT ![getFloorSlotIndex(State, card) + 1] = Null]
       /\ o.state.discard = Append(discard, card)
       /\ IF settings.healingMode = "unlimited" \/ ~healUsed
            THEN /\ o.state.health = Min(settings.maxHealth, health + value(card))
                 /\ o.result.healed = o.state.health - health
                 /\ o.state.healUsed
            ELSE /\ o.result.healed = 0
                 /\ o.state.health = health

\* C8 witness: a heart has just been healed with for part of its value, the
\* rest cut off at maxHealth
HealedUpToMax ==
  /\ firstFloorDealt
  /\ result.op = "heal"
  /\ result.healed > 0
  /\ result.healed < value(result.card)
  /\ health = settings.maxHealth
  /\ health = Last(log).health + result.healed
  /\ healUsed
  /\ Last(discard) = result.card

\* the steps that start a new game or roll one back
Rewinds == {"undo", "initGame", "restartGame"}

\* in every step under healingMode once: a heal on a floor whose heal is used
\* gives healed 0, leaves health and still discards the heart; a heal that
\* finds healUsed false sets it, unless the floor is refilled at once; healUsed
\* goes back to false only with a floor change (first deal, refill, run-away),
\* and every floor change leaves it false
HealOnceStep ==
  /\ (result'.op = "heal" /\ settings.healingMode = "once" /\ healUsed) =>
       /\ result'.healed = 0
       /\ health' = health
       /\ discard' = Append(discard, result'.card)
  /\ (result'.op = "heal" /\ settings.healingMode = "once" /\ ~healUsed) =>
       healUsed' \/ floorNumber' = floorNumber + 1
  /\ (healUsed /\ ~healUsed' /\ result'.op \notin Rewinds) =>
       floorNumber' = floorNumber + 1 \/ result'.op = "dealFirstFloor"
  /\ ((floorNumber' # floorNumber \/ result'.op = "dealFirstFloor")
        /\ result'.op \notin Rewinds) =>
       ~healUsed'

DraggableDiamonds == {d \in Draggable(State) : suit(d[1]) = "diamonds"}

\* C10: a successful equip appends the weapon equipped before and then its
\* trophy pile to discard (nothing without a weapon), makes the card the weapon,
\* empties weaponDamage, unbounds weaponMaxNext, and leaves health, deck,
\* runsRemaining and the other floor slots as they are
EquipEffect ==
  \A d \in DraggableDiamonds :
    LET o == handleEquipWeapon(State, d[1], d[2])
    IN o.result.success =>
         /\ o.state.discard =
              discard \o (IF weapon # Null THEN <<weapon>> \o weaponDamage ELSE <<>>)
         /\ o.state.weapon = d[1]
         /\ o.state.weaponDamage = <<>>
         /\ o.state.weaponMaxNext = Infinity
         /\ o.state.health = health
         /\ o.state.deck = deck
         /\ o.state.runsRemaining = runsRemaining
         /\ \A i \in 1..FLOOR_SIZE :
              o.state.floor[i] = IF d[2] = "floor" /\ floor[i] = d[1] THEN Null ELSE floor[i]

\* what a successful tank of card does, with health clamped at 0 or not
TankSettles(card, clamped) ==
  LET o == handleTakeDamage(State, card, "floor")
  IN /\ o.result.success
     /\ o.result.damage = value(card)
     /\ o.state.health = IF clamped THEN Max(0, health - value(card))
                                     ELSE health - value(card)
     /\ o.state.floor = [floor EXCEPT ![getFloorSlotIndex(State, card) + 1] = Null]
     /\ o.state.discard = Append(discard, card)
     /\ o.state.weapon = weapon
     /\ o.state.weaponDamage = weaponDamage
     /\ o.state.weaponMaxNext = weaponMaxNext

\* C11: a tank of a monster on the floor succeeds with damage equal to the
\* monster's full value whatever the weapon, leaves health at
\* max(0, health - value), takes the monster from its floor slot to the end of
\* discard, and leaves weapon, weaponDamage and weaponMaxNext as they are
TankEffect == \A card \in FloorMonsters : TankSettles(card, TRUE)

\* C11 as stated: the same with health lowered by exactly the monster's value
TankEffectExact == \A card \in FloorMonsters : TankSettles(card, FALSE)

\* C11 witness: a monster has just been tanked for its full value while a weapon
\* with a trophy was equipped, and lies on top of discard
TankedWithWeapon ==
  /\ firstFloorDealt
  /\ result.op = "tank"
  /\ result.success
  /\ weapon # Null
  /\ Len(weaponDamage) = 1
  /\ weapon = Last(log).weapon
  /\ weaponDamage = Last(log).weaponDamage
  /\ weaponMaxNext = Last(log).weaponMaxNext
  /\ result.damage = value(result.card)
  /\ health = Last(log).health - value(result.card)
  /\ Last(discard) = result.card

\* C12: with a weapon equipped, discardWeapon succeeds, appends the weapon and
\* then its whole trophy pile to discard, leaves weapon empty, weaponDamage
\* empty and weaponMaxNext unbounded, and leaves the floor, the deck and health
\* as they are
DiscardWeaponEffect ==
  weapon # Null =>
    LET o == handleDiscardWeapon(State)
    IN /\ o.result.success
       /\ o.state.discard = discard \o <<weapon>> \o weaponDamage
       /\ o.state.weapon = Null
       /\ o.state.weaponDamage = <<>>
       /\ o.state.weaponMaxNext = Infinity
       /\ o.state.floor = floor
       /\ o.state.deck = deck
       /\ o.state.health = health

\* C12 witness: a weapon with a trophy has just been discarded, and the weapon
\* and the trophy are the last two cards of discard
DiscardedWithTrophy ==
  /\ firstFloorDealt
  /\ result.op = "discardWeapon"
  /\ result.success
  /\ Last(log).weapon # Null
  /\ Len(Last(log).weaponDamage) = 1
  /\ discard = Last(log).discard \o <<Last(log).weapon>> \o Last(log).weaponDamage
  /\ weapon = Null
  /\ weaponDamage = <<>>
  /\ weaponMaxNext = Infinity
  /\ health = Last(log).health

\* the actions on a floor card or on the weapon
FloorActions == {"heal", "equip", "fight", "tank", "discardWeapon"}

\* in every state: runAway succeeds exactly when runs remain, the floor is
\* fresh and the floor holds a card, and a declined runAway changes nothing
RunGuardInv ==
  LET o == handleRunAway(State)
  IN /\ o.result.success
          <=> (runsRemaining > 0 /\ floorFresh /\ floorCardCount(State) > 0)
     /\ ~o.result.success => (o.state = State /\ ~o.push)

\* in every step: after a successful action that leaves the player on the same
\* floor runAway is declined, and so it is after the run-away that used up the
\* last run
RunGuardStep ==
  /\ (result'.op \in FloorActions /\ result'.success /\ floorNumber' = floorNumber) =>
       ~handleRunAway(State').result.success
  /\ (result'.op = "runAway" /\ runsRemaining = 1) =>
       ~handleRunAway(State').result.success
  /\ (result'.op = "drawNewFloorAfterRun" /\ runsRemaining = 0) =>
       ~handleRunAway(State').result.success

\* C13: runAway succeeds if and only if runsRemaining > 0, floorFresh is true
\* and the floor holds a card; it is declined after every action taken on the
\* current floor and when no runs remain
RunGuard == []RunGuardInv /\ [][RunGuardStep]_vars

\* C13 witness: the last run has been used and its floor dealt; the floor is
\* fresh and full, and runAway is declined for want of runs
NoRunsLeft ==
  /\ result.op = "drawNewFloorAfterRun"
  /\ runsRemaining = 0
  /\ Last(log).runsRemaining = 1
  /\ floorFresh
  /\ floorCardCount(State) = FLOOR_SIZE
  /\ ~handleRunAway(State).result.success

\* s and t agree on the weapon, its trophies, its bound, discard and health
SameWeaponDiscardHealth(s, t) ==
  /\ t.weapon = s.weapon
  /\ t.weaponDamage = s.weaponDamage
  /\ t.weaponMaxNext = s.weaponMaxNext
  /\ t.discard = s.discard
  /\ t.health = s.health

\* t is s after a run-away as C14 describes its first half
RanFrom(s, t) ==
  /\ t.deck = s.deck \o floorCards(s)
  /\ t.floor = EmptyFloor
  /\ t.runsRemaining = s.runsRemaining - 1
  /\ t.floorNumber = s.floorNumber + 1
  /\ t.floorFresh
  /\ ~t.healUsed
  /\ SameWeaponDiscardHealth(s, t)

\* t is s after the deal of a run-away as C14 describes it
DealtFrom(s, t) ==
  LET n == Min(4, Len(s.deck))
  IN /\ \A i \in 1..n : t.floor[i] = s.deck[i]
     /\ \A i \in (n + 1)..FLOOR_SIZE : t.floor[i] = s.floor[i]
     /\ t.deck = SubSeq(s.deck, n + 1, Len(s.deck))
     /\ t.runsRemaining = s.runsRemaining
     /\ t.floorNumber = s.floorNumber
     /\ t.floorFresh = s.floorFresh
     /\ t.healUsed = s.healUsed
     /\ SameWeaponDiscardHealth(s, t)

\* in every state in which runAway is allowed: what handleRunAway and then
\* drawNewFloorAfterRun leave
RunAwayOutcome ==
  canRun(State) =>
    LET o == handleRunAway(State)
        t == drawNewFloorAfterRun(o.state)
    IN /\ o.result.success
       /\ RanFrom(State, o.state)
       /\ DealtFrom(o.state, t)
       /\ floorCardCount(t) = Min(4, Len(deck) + floorCardCount(State))
       /\ (runsRemaining = 1 /\ floorCardCount(State) = 3) => t.runsRemaining = 0

\* in every step: the run-away step and the deal step of App.handleRunAway
RunAwayStep ==
  /\ result'.op = "runAway" => RanFrom(State, State')
  /\ result'.op = "drawNewFloorAfterRun" => DealtFrom(State, State')

\* C14: a successful runAway puts the floor cards in slot order at the bottom of
\* the deck, empties the floor, takes one from runsRemaining, adds one to
\* floorNumber, sets floorFresh and clears healUsed, and the deal that follows
\* moves min(4, deck length) cards from the top of the deck into slots 0..;
\* weapon, weaponDamage, weaponMaxNext, discard and health stay; with
\* runsRemaining 1 and 3 floor cards runsRemaining becomes 0
RunAwayEffect == []RunAwayOutcome /\ [][RunAwayStep]_vars

\* C14 witness: the last run was taken from a full floor and its floor has
\* been dealt from the top of the deck, the cards run from now at the bottom
RanAndDealt ==
  /\ result.op = "drawNewFloorAfterRun"
  /\ Len(log) >= 1
  /\ Last(log).firstFloorDealt
  /\ Last(log).runsRemaining = 1
  /\ runsRemaining = 0
  /\ floorNumber = Last(log).floorNumber + 1
  /\ floorCardCount(Last(log)) = FLOOR_SIZE
  /\ Len(Last(log).deck) >= FLOOR_SIZE
  /\ floor = SubSeq(Last(log).deck, 1, FLOOR_SIZE)
  /\ deck = SubSeq(Last(log).deck, FLOOR_SIZE + 1, Len(Last(log).deck))
              \o floorCards(Last(log))
  /\ SameWeaponDiscardHealth(Last(log), State)

\* C15: while a run-away is in flight, between its floor-clearing step and the
\* deal of its new floor, no other operation is resolved against the Game
\* State: the only step taken is that deal
Serialized ==
  [][pendingDeals > 0 =>
       (result'.op = "drawNewFloorAfterRun" /\ pendingDeals' = pendingDeals - 1)]_vars

\* t is s after the refill the policy prescribes: with at most one floor card
\* and a deck that is not empty, min(3, deck length) cards go from the top of
\* the deck into the leftmost empty slots in order, the card on the floor keeps
\* its slot, floorNumber goes up by one, floorFresh is set and healUsed
\* cleared; otherwise nothing changes
RefilledFrom(s, t) ==
  IF floorCardCount(s) <= 1 /\ Len(s.deck) > 0
    THEN LET n == Min(3, Len(s.deck))
             empty == {i \in 1..FLOOR_SIZE : s.floor[i] = Null}
             filled == {i \in empty : t.floor[i] # Null}
         IN /\ Cardinality(filled) = n
            /\ \A i \in filled, j \in empty \ filled : i < j
            /\ \A i \in filled : t.floor[i] = s.deck[Cardinality({j \in filled : j <= i})]
            /\ \A i \in (1..FLOOR_SIZE) \ filled : t.floor[i] = s.floor[i]
            /\ t.deck = SubSeq(s.deck, n + 1, Len(s.deck))
            /\ t.floorNumber = s.floorNumber + 1
            /\ t.floorFresh
            /\ ~t.healUsed
            /\ SameWeaponDiscardHealth(s, t)
            /\ t.runsRemaining = s.runsRemaining
    ELSE t = s

\* the outcomes of the actions on a floor card or on the weapon that the player
\* can take in the current state
ActionOutcomes ==
  {dropOutcome(State, d[1], d[2], target, settings) :
     d \in Draggable(State), target \in DropTargets}
    \cup {handleDiscardWeapon(State)}

HealthBeforeCheck ==
  IF result'.op \in {"fight", "tank"} THEN health - result'.damage
  ELSE IF result'.op = "heal" THEN health + result'.healed
  ELSE health

\* in every step of a successful action: the check reports a loss exactly when
\* the action left health <= 0, and health is then 0; it reports a win exactly
\* when health is above 0 and deck and floor are empty; otherwise nothing
EndCheckStep ==
  (result'.op \in FloorActions /\ result'.success) =>
    /\ result'.endState \in {"lose", "win", "none"}
    /\ result'.endState = "lose" <=> HealthBeforeCheck <= 0
    /\ result'.endState = "lose" => health' = 0
    /\ result'.endState # "lose" => health' = HealthBeforeCheck
    /\ result'.endState = "win"
         <=> (HealthBeforeCheck > 0 /\ Len(deck') = 0 /\ floorCardCount(State') = 0)
    /\ (Len(deck') = 0 /\ floorCardCount(State') = 0) =>
         result'.endState = (IF HealthBeforeCheck > 0 THEN "win" ELSE "lose")

\* C17: after every resolved action the check reports a loss exactly when
\* health <= 0 and sets health to 0, a win exactly when health > 0 and deck and
\* floor are empty, and nothing otherwise; with health <= 0 it is a loss even
\* when deck and floor are empty
EndCheck == [][EndCheckStep]_vars

\* C17 witness: the last card of the game has just been played with health
\* left: deck and floor are empty and the check reported a win
GameWon ==
  /\ firstFloorDealt
  /\ result.op \in FloorActions
  /\ result.success
  /\ result.endState = "win"
  /\ health > 0
  /\ Len(deck) = 0
  /\ floorCardCount(State) = 0

\* o is a declined outcome: success false, a message that is not empty, the
\* Game State as it was and nothing pushed on the undo stack
IsDeclined(o) ==
  /\ ~o.result.success
  /\ Len(o.result.message) > 0
  /\ \E i \in 1..Len(o.result.message) : o.result.message[i] # ""
  /\ o.state = State
  /\ ~o.push

\* C18: a fight with no weapon, a fight of a monster above the degradation
\* bound, a runAway without runs or from a floor that is not fresh or is empty,
\* and a discardWeapon with no weapon each return success false with a message
\* that is not empty, and leave the engine as it was
RuleViolationsDeclined ==
  /\ \A card \in FloorMonsters :
       (weapon = Null
          \/ (settings.weaponDegradation # "none" /\ value(card) > weaponMaxNext)) =>
         IsDeclined(handleFightMonster(State, card, "floor", settings))
  /\ (runsRemaining <= 0 \/ ~floorFresh \/ floorCardCount(State) = 0) =>
       IsDeclined(handleRunAway(State))
  /\ weapon = Null => IsDeclined(handleDiscardWeapon(State))

\* C18 witness: after a fight under strict degradation a monster above the bound
\* lies on the floor; fighting it is declined with the message of the bound,
\* and runAway is declined on the floor that is no longer fresh
MonsterAboveBound ==
  /\ firstFloorDealt
  /\ result.op = "fight"
  /\ result.success
  /\ weapon # Null
  /\ settings.weaponDegradation = "strict"
  /\ ~floorFresh
  /\ \E card \in FloorMonsters :
       /\ value(card) > weaponMaxNext
       /\ handleFightMonster(State, card, "floor", settings).result.message
            = <<"Weapon can only fight monsters ", "<", " ",
                ToString(weaponMaxNext + 1), " now.">>
  /\ handleRunAway(State).result.message = <<"Cannot run away now.">>

\* for a card d dragged from d[2]: each action declines it when it is of the
\* wrong type for the action
TypeChecked(d) ==
  LET card == d[1]
      from == d[2]
  IN /\ suit(card) # "hearts" =>
          /\ IsDeclined(handleHeal(State, card, from, settings))
          /\ IsDeclined(dropOutcome(State, card, from, "heal", settings))
     /\ suit(card) # "diamonds" =>
          IsDeclined(handleEquipWeapon(State, card, from))
     /\ suit(card) \in {"hearts", "diamonds"} =>
          /\ IsDeclined(handleTakeDamage(State, card, from))
          /\ IsDeclined(dropOutcome(State, card, from, "health", settings))
     /\ \A target \in {"weapon", "weaponDamage"} :
          LET o == dropOutcome(State, card, from, target, settings)
          IN /\ (o.result.op = "fight" /\ o.result.success) => isMonster(card)
             /\ (o.result.op = "equip" /\ o.result.success) => suit(card) = "diamonds"
             /\ suit(card) = "hearts" => IsDeclined(o)

PassesRules(c, st) ==
  LET red == suitOf[c] \in {"hearts", "diamonds"}
      royal == rankOf[c] \in {"J", "Q", "K"}
  IN /\ ~(red /\ rankOf[c] = "A")
     /\ (suitOf[c] = "diamonds" /\ royal) => st.includeDiamondRoyals
     /\ (suitOf[c] = "hearts" /\ royal) => st.includeHeartRoyals
     /\ (~red /\ rankOf[c] = "A") => ~st.removeAceMonsters

\* number of times the card c is in cards
Copies(cards, c) == Cardinality({i \in 1..Len(cards) : cards[i] = c})

\* cards holds the cards of the catalog that pass the rules, each once
ExactlyAllowed(cards, st) ==
  /\ \A c \in CardIds : Copies(cards, c) = IF PassesRules(c, st) THEN 1 ELSE 0
  /\ \A i \in 1..Len(cards) : cards[i] \in CardIds
  /\ Len(cards) = 52 - 2
                    - (IF st.includeDiamondRoyals THEN 0 ELSE 3)
                    - (IF st.includeHeartRoyals THEN 0 ELSE 3)
                    - (IF st.removeAceMonsters THEN 2 ELSE 0)

\* C20: for each of the 8 combinations of includeDiamondRoyals,
\* includeHeartRoyals and removeAceMonsters the deck built holds exactly the
\* cards of the 52-card catalog that pass the four exclusion rules, each once,
\* and so does the shuffled deck every game starts with
DeckBuilt ==
  /\ Len(FullCatalog) = 52
  /\ Cardinality(Range(FullCatalog)) = 52
  /\ \A st \in DeckSettings : ExactlyAllowed(buildFrom(FullCatalog, st), st)
  /\ ExactlyAllowed(initialDeckOrder, settings)
  /\ ExactlyAllowed(deck \o floorCards(State), settings)

\* C20 witness: a game with diamond royals, without heart royals and without
\* ace monsters has been built and its first floor dealt: 45 cards
DeckOfFortyFive ==
  /\ result.op = "dealFirstFloor"
  /\ settings.includeDiamondRoyals
  /\ ~settings.includeHeartRoyals
  /\ settings.removeAceMonsters
  /\ Len(initialDeckOrder) = 45
  /\ Len(deck) = 41
  /\ Card("diamonds", "K") \in Range(initialDeckOrder)
  /\ Card("hearts", "K") \notin Range(initialDeckOrder)
  /\ Card("spades", "A") \notin Range(initialDeckOrder)

\* the sizes of the decks built under the 8 settings of the deck checkboxes
DeckSizes == {Len(buildFrom(FullCatalog, st)) : st \in DeckSettings}

\* the settings that keep every card they can, and those that drop every card
\* they can
KeepsAll(st) == st.includeDiamondRoyals /\ st.includeHeartRoyals /\ ~st.removeAceMonsters
DropsAll(st) == ~st.includeDiamondRoyals /\ ~st.includeHeartRoyals /\ st.removeAceMonsters

\* the deck of the game has between lo and hi cards, lo when the settings drop
\* every card they can and hi when they keep every card they can
DeckSizeBetween(lo, hi) ==
  /\ Len(initialDeckOrder) >= lo
  /\ Len(initialDeckOrder) <= hi
  /\ KeepsAll(settings) => Len(initialDeckOrder) = hi
  /\ DropsAll(settings) => Len(initialDeckOrder) = lo

\* C21: over all settings the built deck has from 42 to 50 cards: 42 under the
\* combination that drops the most and 50 under the one that keeps the most
DeckSizeRange ==
  /\ DeckSizeBetween(42, 50)
  /\ \A n \in DeckSizes : 42 <= n /\ n <= 50
  /\ 42 \in DeckSizes
  /\ 50 \in DeckSizes

\* C21 as stated: the built deck has from 44 to 52 cards
DeckSizeAsStated == DeckSizeBetween(44, 52)

\* C21 witness: a game built without royals and without ace monsters has been
\* started and its first floor dealt: 42 cards
SmallestDeck ==
  /\ result.op = "dealFirstFloor"
  /\ DropsAll(settings)
  /\ Len(initialDeckOrder) = 42
  /\ Len(deck) = 38
  /\ floorCardCount(State) = FLOOR_SIZE

\* C22: restartGame yields the Game State of right after the initGame that
\* started the game (the same deck, empty piles and floor, an unbounded weapon,
\* full health and runs, floor 1, no first floor dealt) and an empty undo stack
RestartReplays ==
  [][result'.op = "restartGame" =>
       /\ State' = started.state
       /\ deck' = started.state.deck
       /\ floor' = EmptyFloor /\ weapon' = Null /\ weaponDamage' = <<>> /\ discard' = <<>>
       /\ weaponMaxNext' = Infinity
       /\ health' = settings'.maxHealth /\ runsRemaining' = settings'.maxRuns
       /\ floorNumber' = 1 /\ ~firstFloorDealt'
       /\ stateHistory' = <<>>]_vars

\* the operations that change the Game State or the undo stack
Mutating ==
  {"dealFirstFloor", "heal", "equip", "fight", "tank", "discardWeapon", "drop",
   "runAway", "drawNewFloorAfterRun", "undo", "restartGame", "initGame"}

\* the storage holds the Game State, settings and undo stack of the service
Persisted == saved.item = <<saveData>>

\* a load of what is stored gives the Game State, settings and undo stack of
\* the service
LoadsCurrent ==
  /\ saved.item # <<>>
  /\ LET l == loadState(reset, DEFAULT_GAME_SETTINGS, saved.item[1])
     IN /\ l.state = State
        /\ l.settings = settings
        /\ l.stateHistory = stateHistory

\* C23: after each operation that changes the Game State or the undo stack
\* (first deal, heal, equip, fight, tank, discardWeapon, runAway and its deal,
\* refill, undo, restart, new game) what is stored equals the Game State,
\* settings and undo stack in memory, and a load reconstructs them
PersistenceFollows ==
  [][(result'.op \in Mutating /\ (State' # State \/ stateHistory' # stateHistory))
       => Persisted' /\ LoadsCurrent']_vars

\* what is stored for a weapon bound is null when it is unbounded and the
\* number itself when it is bounded
StoredBound(bound, stored) ==
  IF bound = Infinity THEN stored = Null ELSE stored = bound /\ stored # Null

\* saveState followed by loadState in a new GameService restores the state s,
\* the settings st and the undo stack history, with the weapon bounds stored
\* as StoredBound says
RoundTrip(s, st, history) ==
  LET data == saveGameState(s, st, history)
      l == loadState(reset, DEFAULT_GAME_SETTINGS, data)
  IN /\ l.state = s
     /\ l.settings = st
     /\ l.stateHistory = history
     /\ StoredBound(s.weaponMaxNext, data.state.weaponMaxNext)
     /\ Len(data.stateHistory) = Len(history)
     /\ \A i \in 1..Len(history) :
          StoredBound(history[i].weaponMaxNext, data.stateHistory[i].weaponMaxNext)

\* C24: for every reachable Game State, settings and undo stack, saveState
\* followed by loadState restores all three; an unbounded weaponMaxNext, in the
\* state and in every history snapshot, is stored as null and read back as
\* unbounded, and a bounded one is read back as the same number; and a page
\* reload of a game whose last change was saved leaves all three as they were
SaveLoadRoundTrip ==
  /\ [](RoundTrip(State, settings, stateHistory))
  /\ [][(result'.op = "loadState" /\ Persisted)
         => State' = State /\ settings' = settings /\ stateHistory' = stateHistory]_vars

\* C24 witness: a game with a bounded weapon, whose undo stack holds snapshots
\* with an unbounded and with a bounded weapon, has been loaded from the
\* storage
LoadedBoundedAndUnbounded ==
  /\ result.op = "loadState"
  /\ Persisted
  /\ weaponMaxNext # Infinity
  /\ \E i, j \in 1..Len(stateHistory) :
       /\ stateHistory[i].weaponMaxNext = Infinity
       /\ stateHistory[j].weaponMaxNext # Infinity
  /\ settings # DEFAULT_GAME_SETTINGS

\* the seven fields of the settings
SettingsFields ==
  {"maxHealth", "weaponDegradation", "maxRuns", "healingMode",
   "includeDiamondRoyals", "includeHeartRoyals", "removeAceMonsters"}

\* the settings st equal the preset name in all seven fields
EqualsPreset(st, name) ==
  \A key \in SettingsFields : st[key] = DIFFICULTY_PRESETS[name][key]

\* C25: getCurrentDifficultyMode returns the name of a preset if and only if
\* all seven settings fields equal that preset's values, and 'custom'
\* otherwise; after applyDifficultyPreset(p) with p one of brutal, hard,
\* normal, easy, casual it returns p, and applyDifficultyPreset of an unknown
\* name leaves the settings unchanged
DifficultyMode ==
  /\ [](/\ DOMAIN settings = SettingsFields
        /\ \A name \in {"brutal", "hard", "normal", "easy", "casual"} :
             /\ getCurrentDifficultyMode(settings) = name <=> EqualsPreset(settings, name)
             /\ getCurrentDifficultyMode(applyDifficultyPreset(settings, name)) = name
        /\ getCurrentDifficultyMode(settings) = "custom"
             <=> \A name \in {"brutal", "hard", "normal", "easy", "casual"} :
                   ~EqualsPreset(settings, name)
        /\ applyDifficultyPreset(settings, "nightmare") = settings)
  /\ [][result'.op = "applyDifficultyPreset"
         => /\ getCurrentDifficultyMode(settings') \in ClickedPresets
            /\ settings' = DIFFICULTY_PRESETS[getCurrentDifficultyMode(settings')]]_vars

\* C25 witness: in a game started with custom settings a preset has been
\* clicked, and the mode is that preset
CustomTurnedPreset ==
  /\ result.op = "applyDifficultyPreset"
  /\ getCurrentDifficultyMode(started.settings) = "custom"
  /\ getCurrentDifficultyMode(settings) = "brutal"

\* the operations the player resolves cards with, a drop on a target that
\* takes no such card and the run-away included
PlayerActions == FloorActions \cup {"drop", "runAway"}

\* C26: the refill runs at most once per action and only after a successfully
\* resolved one: a declined action never draws cards onto the floor and never
\* changes the deck, floorNumber, floorFresh or healUsed
RefillOnlyAfterSuccess ==
  [][result'.op \in PlayerActions
       => /\ floorNumber' <= floorNumber + 1
          /\ Len(deck) - Len(deck') <= 3
          /\ result'.refilled => result'.success
          /\ ~result'.success
               => /\ floor' = floor
                  /\ deck' = deck
                  /\ floorNumber' = floorNumber
                  /\ floorFresh' = floorFresh
                  /\ healUsed' = healUsed]_vars

\* what each of the six handlers returns in the present state, for every card
\* on screen; the fight is called with monsters only, as the switch of
\* App.handleCardDrop calls it
HandlerOutcomes ==
  {handleDiscardWeapon(State), handleRunAway(State)}
    \cup UNION {{handleHeal(State, d[1], d[2], settings),
                 handleEquipWeapon(State, d[1], d[2]),
                 handleTakeDamage(State, d[1], d[2])} : d \in Draggable(State)}
    \cup {handleFightMonster(State, d[1], d[2], settings) :
            d \in {e \in Draggable(State) : isMonster(e[1])}}

\* the handler that returned o left the Game State and the undo stack as they were
NoEffect(o) ==
  /\ o.state = State
  /\ (IF o.push THEN saveToHistory(stateHistory, State) ELSE stateHistory) = stateHistory

\* C27: whenever heal, equip, fight, tank, discardWeapon or runAway returns
\* success = false, every field of the Game State and the undo stack are
\* exactly as before the call
DeclinedNoEffect ==
  \A o \in HandlerOutcomes : ~o.result.success => NoEffect(o)

\* C27 witness: on a floor that has been played on, with no weapon, each of the
\* six handlers declines: a card that is no heart, one that is no diamond, a
\* monster, a card that is no monster, the discard and the run-away
EachHandlerDeclines ==
  /\ firstFloorDealt /\ ~floorFresh /\ weapon = Null /\ Len(stateHistory) > 0
  /\ \E d \in Draggable(State) : ~handleHeal(State, d[1], d[2], settings).result.success
  /\ \E d \in Draggable(State) : ~handleEquipWeapon(State, d[1], d[2]).result.success
  /\ \E d \in Draggable(State) :
       isMonster(d[1]) /\ ~handleFightMonster(State, d[1], d[2], settings).result.success
  /\ \E d \in Draggable(State) : ~handleTakeDamage(State, d[1], d[2]).result.success
  /\ ~handleDiscardWeapon(State).result.success
  /\ ~handleRunAway(State).result.success

\* the slots of the floor that hold the card
SlotsOf(card) == {i \in 1..FLOOR_SIZE : floor[i] = card}

\* what heal, equip, fight and tank return for the floor card, the fight for
\* monsters only
FloorCardOutcomes(card) ==
  {handleHeal(State, card, "floor", settings),
   handleEquipWeapon(State, card, "floor"),
   handleTakeDamage(State, card, "floor")}
    \cup (IF isMonster(card) THEN {handleFightMonster(State, card, "floor", settings)}
          ELSE {})

\* C28: the floor always has exactly 4 slots, and a successful heal, equip,
\* fight or tank of a floor card empties exactly the slot that held that card:
\* before any refill every other slot holds the same card, or stays empty, at
\* the same index
FloorPositional ==
  /\ DOMAIN floor = 1..4
  /\ \A i \in 1..FLOOR_SIZE : floor[i] # Null =>
       /\ SlotsOf(floor[i]) = {i}
       /\ \A o \in FloorCardOutcomes(floor[i]) :
            /\ DOMAIN o.state.floor = 1..4
            /\ o.result.success =>
                 /\ o.state.floor[i] = Null
                 /\ \A j \in (1..FLOOR_SIZE) \ {i} : o.state.floor[j] = floor[j]

\* C28 witness: the card of the first slot has been resolved and no refill
\* followed: the first slot is empty and the three cards to its right lie
\* where they lay
FirstSlotEmptied ==
  /\ result.op \in {"heal", "equip", "fight", "tank"}
  /\ result.success /\ ~result.refilled
  /\ Len(log) > 0
  /\ Last(log).floor[1] = result.card
  /\ floor[1] = Null
  /\ \A j \in 2..FLOOR_SIZE : floor[j] # Null /\ floor[j] = Last(log).floor[j]

\* every successful heal, equip, fight, tank and discardWeapon returns, before
\* any refill, a state whose floorFresh is false
ActionsUnfresh ==
  \A o \in HandlerOutcomes \ {handleRunAway(State)} :
    o.result.success => ~o.state.floorFresh

\* what a step makes of floorFresh: true after the first deal, after a refill
\* and after a run-away, false after a successful heal, equip, fight, tank or
\* discardWeapon that no refill follows, and as it was after every other step
\* but undo, restart and new game
FreshStep ==
  IF result'.op = "dealFirstFloor" THEN floorFresh'
  ELSE IF result'.op \in PlayerActions /\ result'.refilled THEN floorFresh'
  ELSE IF result'.op = "runAway" /\ result'.success THEN floorFresh'
  ELSE IF result'.op \in FloorActions /\ result'.success THEN ~floorFresh'
  ELSE IF result'.op \in {"undo", "restartGame", "initGame"} THEN TRUE
  ELSE floorFresh' = floorFresh

\* right after a floor has been laid out (the first deal, a refill, the deal of
\* a run-away) no action has been taken on it
NewFloorFresh ==
  (result.op \in {"dealFirstFloor", "drawNewFloorAfterRun"} \/ result.refilled)
    => floorFresh

\* C29: floorFresh is true exactly when no successful action has been taken on
\* the current floor: it is set to true by the first deal, by every refill and
\* by every run-away, set to false by every successful heal, equip, fight,
\* tank and discardWeapon, and changed by nothing else except undo, restart
\* and new game
FloorFreshTracks ==
  /\ [](NewFloorFresh)
  /\ [](ActionsUnfresh)
  /\ [][FreshStep]_vars

\* the sequence a is a prefix of the sequence b
IsPrefix(a, b) == Len(a) <= Len(b) /\ SubSeq(b, 1, Len(a)) = a

\* C30: across every heal, equip, fight, tank, discardWeapon, runAway and
\* refill, declined or not, the previous discard sequence is a prefix of the
\* new one; only undo, restart and new game can shorten it
DiscardAppendOnly ==
  /\ [](\A o \in HandlerOutcomes : IsPrefix(discard, o.state.discard))
  /\ [](IsPrefix(discard, checkAndRefillFloor(State).discard))
  /\ [][result'.op \notin {"undo", "restartGame", "initGame"}
         => IsPrefix(discard, discard')]_vars

\* C30 witness: an action has added to a discard pile that held cards
DiscardGrown ==
  /\ result.op \in FloorActions
  /\ result.success
  /\ Len(log) > 0
  /\ Len(Last(log).discard) > 0
  /\ Len(discard) > Len(Last(log).discard)
  /\ IsPrefix(Last(log).discard, discard)

\* C31: the first floor is dealt at most once per game: the first
\* dealFirstFloor after a new game or restart moves min(4, deck length) cards
\* from the top of the deck into the floor slots 0.. in order and sets
\* floorFresh = true, healUsed = false; every later one changes nothing, and
\* the first deal only ever writes to empty floor slots
FirstDealOnce ==
  /\ [](firstFloorDealt => handleDeckClick(State) = State)
  /\ [][result'.op = "dealFirstFloor" =>
         LET n == Min(4, Len(deck))
         IN /\ ~firstFloorDealt /\ firstFloorDealt'
            /\ \A i \in 1..n : floor'[i] = deck[i] /\ floor[i] = Null
            /\ \A i \in (n + 1)..FLOOR_SIZE : floor'[i] = floor[i]
            /\ deck' = SubSeq(deck, n + 1, Len(deck))
            /\ floorFresh' /\ ~healUsed']_vars

\* C32: in every reachable state, if no weapon is equipped then weaponDamage
\* is empty and weaponMaxNext is unbounded; and under strict or equal
\* degradation, with the settings fixed for the game, weaponMaxNext is
\* unbounded exactly when weaponDamage is empty
WeaponConsistent ==
  /\ weapon = Null => weaponDamage = <<>> /\ weaponMaxNext = Infinity
  /\ (started.fixed /\ settings.weaponDegradation \in {"strict", "equal"})
       => (weaponMaxNext = Infinity <=> weaponDamage = <<>>)

\* C32 witness: a weapon with a trophy and a bound has been discarded, under
\* strict degradation with the settings of the initGame
DiscardedDegradedWeapon ==
  /\ result.op = "discardWeapon" /\ result.success
  /\ started.fixed /\ settings.weaponDegradation = "strict"
  /\ Len(log) > 0
  /\ Last(log).weapon # Null
  /\ Len(Last(log).weaponDamage) > 0
  /\ Last(log).weaponMaxNext # Infinity
  /\ weapon = Null /\ weaponDamage = <<>> /\ weaponMaxNext = Infinity

\* C33: with the settings fixed for the game, the values of the monsters in
\* weaponDamage, in the order fought, are strictly decreasing under strict
\* degradation and non-increasing under equal degradation, and when the pile
\* is not empty weaponMaxNext is the last trophy's value minus 1 (strict) or
\* the last trophy's value (equal)
TrophiesOrdered ==
  started.fixed =>
    /\ settings.weaponDegradation = "strict" =>
         /\ \A i \in 1..(Len(weaponDamage) - 1) :
              value(weaponDamage[i]) > value(weaponDamage[i + 1])
         /\ Len(weaponDamage) > 0 => weaponMaxNext = value(Last(weaponDamage)) - 1
    /\ settings.weaponDegradation = "equal" =>
         /\ \A i \in 1..(Len(weaponDamage) - 1) :
              value(weaponDamage[i]) >= value(weaponDamage[i + 1])
         /\ Len(weaponDamage) > 0 => weaponMaxNext = value(Last(weaponDamage))

\* C33 witness: two monsters have been fought with one weapon under strict
\* degradation, the second weaker than the first
TwoTrophies ==
  /\ result.op = "fight" /\ result.success
  /\ started.fixed /\ settings.weaponDegradation = "strict"
  /\ Len(weaponDamage) = 2
  /\ value(weaponDamage[1]) > value(weaponDamage[2])
  /\ weaponMaxNext = value(weaponDamage[2]) - 1

\* the cards still to be played: those of the deck and those of the floor
Remaining(s) == Len(s.deck) + floorCardCount(s)

\* C34: every successful heal, equip, fight or tank decreases deck length +
\* floorCardCount by exactly 1, the refill that follows included, while
\* runAway and its deal, a refill alone and discardWeapon leave it unchanged,
\* so that a play without undo ends after finitely many actions
ProgressMeasure ==
  [][/\ (result'.op \in {"heal", "equip", "fight", "tank"} /\ result'.success)
          => Remaining(State') = Remaining(State) - 1
     /\ (result'.op \in {"runAway", "drawNewFloorAfterRun"}
           \/ (result'.op = "discardWeapon" /\ result'.success)
           \/ (result'.op \in PlayerActions /\ ~result'.success))
          => Remaining(State') = Remaining(State)]_vars

\* the game is in play: the first floor has been dealt, the game is neither
\* won nor lost, and no run-away waits for its deal
InPlay == firstFloorDealt /\ ~hasWon(State) /\ ~hasLost(State) /\ pendingDeals = 0

\* C35: in every reachable state that is neither won nor lost and in which the
\* first floor has been dealt and no run-away deal is pending, the floor holds
\* at least one card and at least one action on a floor card would succeed
\* (heal for a heart, equip for a diamond, tank for a monster)
NoStuckState ==
  InPlay =>
    /\ floorCardCount(State) >= 1
    /\ \E i \in 1..FLOOR_SIZE :
         /\ floor[i] # Null
         /\ \/ suit(floor[i]) = "hearts"
               /\ handleHeal(State, floor[i], "floor", settings).result.success
            \/ suit(floor[i]) = "diamonds"
               /\ handleEquipWeapon(State, floor[i], "floor").result.success
            \/ isMonster(floor[i])
               /\ handleTakeDamage(State, floor[i], "floor").result.success

\* C36: in every state between operations in which the first floor has been
\* dealt, the game is not lost and no run-away deal is pending,
\* floorCardCount >= 2 or the deck is empty; this also holds after undo
FloorOccupancy ==
  (firstFloorDealt /\ ~hasLost(State) /\ pendingDeals = 0)
    => (floorCardCount(State) >= 2 \/ Len(deck) = 0)

\* C37: in every reachable state 0 <= runsRemaining <= maxRuns of the settings
\* in force; runsRemaining is decreased by exactly 1 by each successful
\* runAway, restored by undo, reset to maxRuns by new game and restart, and
\* changed by no other operation
RunBudget ==
  /\ [](TRUE => (0 <= runsRemaining /\ runsRemaining <= settings.maxRuns))
  /\ [][IF result'.op = "runAway" /\ result'.success
          THEN runsRemaining' = runsRemaining - 1
        ELSE IF result'.op = "undo" /\ Len(log') < Len(log)
          THEN runsRemaining' = Last(log).runsRemaining
        ELSE IF result'.op \in {"initGame", "restartGame"}
          THEN runsRemaining' = settings'.maxRuns
        ELSE runsRemaining' = runsRemaining]_vars

\* C38: once the win/loss check has reported a loss (health = 0) or a win, no
\* heal, equip, fight, tank, discardWeapon or runAway succeeds or changes the
\* Game State; only undo, restart and new game leave the terminal state
TerminalAbsorbing ==
  [][((hasLost(State) \/ hasWon(State)) /\ firstFloorDealt /\ result'.op \in PlayerActions)
       => /\ State' = State
          /\ stateHistory' = stateHistory]_vars

\* the settings that govern the actions of a game
RuleFields == {"maxHealth", "weaponDegradation", "healingMode", "maxRuns"}

\* C39: the maxHealth, weaponDegradation, healingMode and maxRuns that govern
\* the actions of the current game are those with which its deck, health and
\* runsRemaining were initialised; a difficulty preset changes the rules in
\* force only together with a new game, never in the middle of one
SettingsFixed ==
  /\ [](\A k \in RuleFields : settings[k] = started.settings[k])
  /\ [][result'.op = "applyDifficultyPreset"
         => \A k \in RuleFields : settings'[k] = settings[k]]_vars

====
